---- MODULE Spec2Model ----
(***************************************************************************)
(* A model of the aci-map simulation kernel: the per-object spinlock       *)
(* (SyncState), the heterogeneous object registry (Objects / ObjectSync),  *)
(* the tick orchestration (Map::simulate) with the air and liquid solvers, *)
(* and the AI of the characters (goals, workspot claims, walking).         *)
(*                                                                         *)
(* The specifications share the variables:                                 *)
(*   SpecLock        threads contending for the SyncState of one object    *)
(*   SpecLockFair    the same, every thread scheduled again and again      *)
(*   SpecReg         push_object, remove_object, get_object on a registry  *)
(*   SpecSim         simulate ticks on a small grid                        *)
(*   SpecNeighbours  neighbour_tile_coords on grids of every size          *)
(*   SpecApply       the apply steps of one tick, from chosen buffers      *)
(*   SpecWorld       simulate and perform_ai_tick calls on a map whose     *)
(*                   owner pushes and removes objects between them         *)
(*   SpecFacing      Facing::rotate and move_coords_in_direction           *)
(*   SpecChoice      calculate_ai_changes on two ventilators               *)
(*   SpecEffect      the apply steps on a map with one kind of effector    *)
(*   SpecSpread      calculate_liquid_diff for water and for lava          *)
(***************************************************************************)
EXTENDS Integers, Sequences, FiniteSets, TLC

(***************************************************************************)
(* Bounds of the model.                                                    *)
(***************************************************************************)
\* threads contending for one SyncState
NumThreads == 3
\* push_object calls in one run of the registry
MaxPushes == 3
\* guards the caller of the registry keeps alive at once
MaxGuards == 2
\* the grid of SpecSim: Map<WIDTH, HEIGHT>
Width == 2
Height == 2
\* simulate calls in one run
MaxTicks == 2

VARIABLES
    \* Objects (src/src/objects/mod.rs:21-29)
    next_object_id,
    object_sync,
    environment_objects,
    buildings,
    characters,
    \* position of every thread that uses a SyncState
    tpc,
    \* guards (LockedObject / LockedObjectMut) alive in the single-threaded caller
    guards,
    \* the caller is stuck in a spin loop that no other thread can end
    spinning,
    \* a panic has unwound the caller
    panicked,
    \* history: ids returned by push_object, in call order
    issued,
    \* history: <<kind, id>> of every object removed so far
    removed,
    \* Map (src/src/lib.rs:17-25): the grid and the clock
    tiles,
    current_time,
    \* simulate: where the calling thread stands, and its argument
    spc,
    delta_time,
    \* the tasks spawned into the rayon scope and the buffers they write
    task_state,
    air_diff,
    water_diff,
    lava_diff,
    ai_changes,
    \* history: tiles and objects when the running tick began
    pre_tick,
    \* history: the tiles and objects every task read
    task_input,
    \* history: the mutating steps of the running tick, in the order they ran
    apply_log,
    \* history: simulate calls completed
    ticks,
    \* the argument and the result of a function applied on its own
    probe

reg_vars == <<next_object_id, object_sync, environment_objects, buildings, characters>>
map_vars == <<tiles, current_time, spc, delta_time, task_state, air_diff, water_diff,
              lava_diff, ai_changes, pre_tick, task_input, apply_log, ticks>>
sim_vars == <<map_vars, probe>>
vars == <<next_object_id, object_sync, environment_objects, buildings, characters,
          tpc, guards, spinning, panicked, issued, removed, sim_vars>>

Kinds == {"EnvironmentObject", "Building", "Character"}
Threads == 1 .. NumThreads

(***************************************************************************)
(* Helpers on sequences.                                                   *)
(***************************************************************************)
Range(s) == {s[i] : i \in DOMAIN s}
Ids(vec) == [i \in DOMAIN vec |-> vec[i].id]
RemoveAt(s, index) == SubSeq(s, 1, index - 1) \o SubSeq(s, index + 1, Len(s))
InsertAt(s, index, e) == SubSeq(s, 1, index - 1) \o <<e>> \o SubSeq(s, index, Len(s))
StrictlyIncreasing(s) == \A i, j \in DOMAIN s : i < j => s[i] < s[j]

(***************************************************************************)
(* f32 arithmetic.  A finite value is an integer count of 1/FP; products   *)
(* and quotients are cut toward zero.  NaN and the two infinities are kept *)
(* apart from the finite values and follow the IEEE rules (signed zeros    *)
(* are not told apart); f32::max, f32::min and f32::clamp are the standard *)
(* library's: max and min return the other operand when one is NaN, clamp  *)
(* returns NaN for NaN and panics when min > max or a limit is NaN.        *)
(***************************************************************************)
FP == 1000
NaN == 2147483646
PInf == 2147483647
NInf == -2147483647

IsNaN(a) == a = NaN
IsInf(a) == a = PInf \/ a = NInf
Sign(a) == IF a = PInf THEN 1 ELSE IF a = NInf THEN -1 ELSE IF a > 0 THEN 1 ELSE IF a < 0 THEN -1 ELSE 0
SignedInf(sgn) == IF sgn > 0 THEN PInf ELSE NInf
Abs(a) == IF a < 0 THEN -a ELSE a
\* integer quotient cut toward zero
TruncDiv(a, b) == Sign(a) * Sign(b) * (Abs(a) \div Abs(b))

FNeg(a) == IF IsNaN(a) THEN NaN ELSE IF a = PInf THEN NInf ELSE IF a = NInf THEN PInf ELSE -a

FAdd(a, b) ==
    IF IsNaN(a) \/ IsNaN(b) THEN NaN
    ELSE IF IsInf(a) /\ IsInf(b) THEN (IF a = b THEN a ELSE NaN)
    ELSE IF IsInf(a) THEN a
    ELSE IF IsInf(b) THEN b
    ELSE a + b

FSub(a, b) == FAdd(a, FNeg(b))

FMul(a, b) ==
    IF IsNaN(a) \/ IsNaN(b) THEN NaN
    ELSE IF IsInf(a) \/ IsInf(b)
         THEN (IF Sign(a) * Sign(b) = 0 THEN NaN ELSE SignedInf(Sign(a) * Sign(b)))
    ELSE TruncDiv(a * b, FP)

FDiv(a, b) ==
    IF IsNaN(a) \/ IsNaN(b) THEN NaN
    ELSE IF IsInf(a) THEN (IF IsInf(b) THEN NaN
                           ELSE SignedInf(Sign(a) * (IF Sign(b) < 0 THEN -1 ELSE 1)))
    ELSE IF IsInf(b) THEN 0
    ELSE IF b = 0 THEN (IF a = 0 THEN NaN ELSE SignedInf(Sign(a)))
    ELSE TruncDiv(a * FP, b)

\* a < b
FLt(a, b) ==
    IF IsNaN(a) \/ IsNaN(b) THEN FALSE ELSE a < b

\* a >= b
FGe(a, b) ==
    IF IsNaN(a) \/ IsNaN(b) THEN FALSE ELSE a >= b

\* a > b
FGt(a, b) == FLt(b, a)

FMax(a, b) == IF IsNaN(a) THEN b ELSE IF IsNaN(b) THEN a ELSE IF a >= b THEN a ELSE b

FMin(a, b) == IF IsNaN(a) THEN b ELSE IF IsNaN(b) THEN a ELSE IF a <= b THEN a ELSE b

FAbs(a) == IF IsNaN(a) THEN NaN ELSE IF IsInf(a) THEN PInf ELSE Abs(a)

\* the largest r with r * r <= n
RECURSIVE ISqrtFrom(_, _)
ISqrtFrom(n, r) == IF (r + 1) * (r + 1) > n THEN r ELSE ISqrtFrom(n, r + 1)

RECURSIVE ISqrt(_)
ISqrt(n) == IF n < 4 THEN ISqrtFrom(n, 0) ELSE ISqrtFrom(n, 2 * ISqrt(n \div 4))

FSqrt(a) ==
    IF IsNaN(a) THEN NaN
    ELSE IF a = PInf THEN PInf
    ELSE IF a < 0 THEN NaN
    ELSE ISqrt(a * FP)

\* f32::clamp's assert!(min <= max) fails
ClampPanics(lo, hi) == IsNaN(lo) \/ IsNaN(hi) \/ lo > hi

FClamp(a, lo, hi) ==
    IF IsNaN(a) THEN NaN ELSE IF a < lo THEN lo ELSE IF a > hi THEN hi ELSE a

(***************************************************************************)
(* Map: the tile grid.  tiles[<<x, y>>] is a Tile; walls carry neither air *)
(* nor liquids.                                                            *)
(***************************************************************************)
Coords == (0 .. Width - 1) \X (0 .. Height - 1)

\* Map::all_tile_coords: x outermost
all_tile_coords == [i \in 1 .. Width * Height |-> <<(i - 1) \div Height, (i - 1) % Height>>]

Wall(ground_level) == [ground_level |-> ground_level, tile_type |-> [tag |-> "Wall"]]
Ground(ground_level, air, liquids) ==
    [ground_level |-> ground_level,
     tile_type |-> [tag |-> "Ground", air |-> air, liquids |-> liquids]]
AirData(nitrogen, oxygen, fumes) == [nitrogen |-> nitrogen, oxygen |-> oxygen, fumes |-> fumes]
LiquidNone == [tag |-> "None"]
Water(level) == [tag |-> "Water", level |-> level]
Lava(level) == [tag |-> "Lava", level |-> level]

\* AirData::new_default: 0.79, 0.21, 0.0
AirDefault == AirData(790, 210, 0)
\* Tile::new_default
TileDefault == Ground(0, AirDefault, LiquidNone)

AirDiffDefault == [c \in Coords |-> AirData(0, 0, 0)]

LiquidDiffDefault == [c \in Coords |-> 0]

\* the computations simulate spawns: lib.rs:258-260, and the AI re-evaluation
ForkedTasks == {"air", "water", "lava"}
Tasks == ForkedTasks \cup {"ai"}

\* the part of the state a task can read
Snapshot == [tiles |-> tiles, environment_objects |-> environment_objects,
             buildings |-> buildings, characters |-> characters]

\* Map::new_default with no simulate call made
MapNew ==
    /\ tiles = [c \in Coords |-> TileDefault]
    /\ current_time = 0
    /\ spc = "idle"
    /\ delta_time = 0
    /\ task_state = [t \in Tasks |-> "idle"]
    /\ air_diff = AirDiffDefault
    /\ water_diff = LiquidDiffDefault
    /\ lava_diff = LiquidDiffDefault
    /\ ai_changes = <<>>
    /\ pre_tick = Snapshot
    /\ task_input = [t \in Tasks |-> <<>>]
    /\ apply_log = <<>>
    /\ ticks = 0

(***************************************************************************)
(* slice::binary_search_by_key as the standard library computes it, on the *)
(* sequence of keys (1-based here): [ok |-> TRUE, index |-> i] when a key  *)
(* equal to the target is hit, [ok |-> FALSE, index |-> insertion point]   *)
(* otherwise.  On an unsorted slice the result is whatever the bisection   *)
(* meets.                                                                  *)
(***************************************************************************)
RECURSIVE bisect_flipped(_, _, _, _)
bisect_flipped(keys, target, left, right) ==
    IF left >= right THEN [ok |-> FALSE, index |-> left]
    ELSE LET mid == left + (right - left) \div 2 IN
         IF keys[mid] = target THEN [ok |-> TRUE, index |-> mid]
         ELSE IF keys[mid] > target THEN bisect_flipped(keys, target, mid + 1, right)
         ELSE bisect_flipped(keys, target, left, mid)

RECURSIVE bisect(_, _, _, _)
bisect(keys, target, left, right) ==
    IF left >= right THEN [ok |-> FALSE, index |-> left]
    ELSE LET mid == left + (right - left) \div 2 IN
         IF keys[mid] = target THEN [ok |-> TRUE, index |-> mid]
         ELSE IF keys[mid] < target THEN bisect(keys, target, mid + 1, right)
         ELSE bisect(keys, target, left, mid)

binary_search_by_key(keys, target) == bisect(keys, target, 1, Len(keys) + 1)

(***************************************************************************)
(* SyncState: one atomic word, WRITER in bit 0, the reader count above it. *)
(* Every access is an atomic read-modify-write of the one word, so the     *)
(* accesses of all threads are totally ordered and each reads the latest   *)
(* value.  The word is an AtomicU32; with NumThreads holders it stays far  *)
(* below 2^32 and never wraps.                                             *)
(***************************************************************************)
WRITER == 1
READER == 2

RECURSIVE BitAnd(_, _)
BitAnd(a, b) ==
    IF a = 0 \/ b = 0 THEN 0
    ELSE (a % 2) * (b % 2) + 2 * BitAnd(a \div 2, b \div 2)

\* mod.rs:227 with the test dropped: a reader that never looks at the flag
writer_active_ignored(previous_value) == FALSE

\* mod.rs:227  previous_value & Self::WRITER > 0
writer_active(previous_value) == BitAnd(previous_value, WRITER) > 0

\* a store in place of the compare-and-swap
compare_exchange_blind(current, expected) == TRUE

\* mod.rs:245  compare_exchange_weak(0, WRITER) finds the expected value
compare_exchange_matches(current, expected) == current = expected

\* ObjectSync::find_index
find_index(object_id) == binary_search_by_key(Ids(object_sync), object_id)

SyncWord(object_id) == object_sync[find_index(object_id).index].state

SetSyncWord(object_id, value) ==
    object_sync' = [object_sync EXCEPT ![find_index(object_id).index].state = value]

\* the object the threads of SpecLock contend for
LockTarget == object_sync[1].id

\* a thread enters spin_take_read or spin_take_write
call_take(t) ==
    /\ tpc[t] = "idle"
    /\ \E want \in {"take_read", "take_write"} : tpc' = [tpc EXCEPT ![t] = want]
    /\ UNCHANGED <<object_sync>>

\* spin_take_read: the fetch_add and the test of the value it returned
spin_take_read(t) ==
    /\ tpc[t] = "take_read"
    /\ LET previous_value == SyncWord(LockTarget) IN
       /\ SetSyncWord(LockTarget, previous_value + READER)
       /\ tpc' = [tpc EXCEPT ![t] =
                    IF writer_active(previous_value) THEN "read_rollback" ELSE "reading"]

\* the reader count is not given back when a writer is active
spin_take_read_rollback_lost(t) ==
    /\ tpc[t] = "read_rollback"
    /\ tpc' = [tpc EXCEPT ![t] = "take_read"]
    /\ UNCHANGED object_sync

\* spin_take_read: a writer is active, the reader count is given back
spin_take_read_rollback(t) ==
    /\ tpc[t] = "read_rollback"
    /\ SetSyncWord(LockTarget, SyncWord(LockTarget) - READER)
    /\ tpc' = [tpc EXCEPT ![t] = "take_read"]

release_read(t) ==
    /\ tpc[t] = "reading"
    /\ SetSyncWord(LockTarget, SyncWord(LockTarget) - READER)
    /\ tpc' = [tpc EXCEPT ![t] = "idle"]

\* spin_take_write: one compare_exchange_weak; it may also fail spuriously
spin_take_write(t) ==
    /\ tpc[t] = "take_write"
    /\ \/ /\ compare_exchange_matches(SyncWord(LockTarget), 0)
          /\ SetSyncWord(LockTarget, WRITER)
          /\ tpc' = [tpc EXCEPT ![t] = "writing"]
       \/ /\ UNCHANGED <<object_sync, tpc>>

release_write(t) ==
    /\ tpc[t] = "writing"
    /\ SetSyncWord(LockTarget, SyncWord(LockTarget) - WRITER)
    /\ tpc' = [tpc EXCEPT ![t] = "idle"]

lock_frame == UNCHANGED <<next_object_id, environment_objects, buildings, characters,
                          guards, spinning, panicked, issued, removed, sim_vars>>

\* Objects::new() followed by one push_object: one object, its SyncState free
InitLock ==
    /\ next_object_id = 1
    /\ object_sync = <<[id |-> 0, state |-> 0]>>
    /\ environment_objects = <<[id |-> 0, object |-> [type |-> "OxygenUser", x |-> 0, y |-> 0, change_per_sec |-> 0]]>>
    /\ buildings = <<>>
    /\ characters = <<>>
    /\ tpc = [t \in Threads |-> "idle"]
    /\ guards = <<>>
    /\ spinning = FALSE
    /\ panicked = FALSE
    /\ issued = <<0>>
    /\ removed = {}
    /\ MapNew
    /\ probe = <<>>

NextLock ==
    \E t \in Threads :
        \/ call_take(t) /\ lock_frame
        \/ spin_take_read(t) /\ lock_frame
        \/ spin_take_read_rollback(t) /\ lock_frame
        \/ release_read(t) /\ lock_frame
        \/ spin_take_write(t) /\ lock_frame
        \/ release_write(t) /\ lock_frame

SpecLock == InitLock /\ [][NextLock]_vars

Readers == {t \in Threads : tpc[t] = "reading"}
Writers == {t \in Threads : tpc[t] = "writing"}

\* the steps of a thread inside the SyncState methods: the scheduler lets every thread
\* run, and a compare_exchange_weak on a word that stays 0 does not fail for ever
ThreadStep(t) ==
    /\ \/ spin_take_read(t)
       \/ spin_take_read_rollback(t)
       \/ release_read(t)
       \/ spin_take_write(t)
       \/ release_write(t)
    /\ lock_frame

SpecLockFair == InitLock /\ [][NextLock]_vars /\ \A t \in Threads : WF_vars(ThreadStep(t))

Waiting(t) == tpc[t] \in {"take_read", "read_rollback", "take_write"}
Holding(t) == tpc[t] \in {"reading", "writing"}

\* C27 as stated: under fair scheduling, holders releasing after finitely many steps,
\* every thread that calls spin_take_read or spin_take_write eventually acquires.
C27_EveryThreadAcquires == \A t \in Threads : Waiting(t) ~> Holding(t)

\* C27, amended: under fair scheduling, whenever a thread is inside spin_take_read or
\* spin_take_write some thread comes to hold the lock (no state in which the waiting
\* threads spin for ever while nobody holds it), and no call fails.
C27_SomeThreadAcquires ==
    /\ (\E t \in Threads : Waiting(t)) ~> (\E t \in Threads : Holding(t))
    /\ [](~panicked /\ ~spinning)

\* a reader and a writer are inside their spin loops while a third thread reads
C27_Witness ==
    /\ \E t \in Threads : tpc[t] = "reading"
    /\ \E t \in Threads : tpc[t] = "take_write"
    /\ \E t \in Threads : tpc[t] = "take_read"

\* C1: no thread holds read access while another thread holds write access
C1_NoReaderWithWriter == Readers = {} \/ Writers = {}

\* a reader came while the writer held the lock and was turned away
C1_Witness ==
    /\ Writers # {}
    /\ \E t \in Threads : tpc[t] = "read_rollback"

\* C2: at most one thread holds write access at any time
C2_AtMostOneWriter == Cardinality(Writers) <= 1

\* a second writer and a reader are contending while one writer holds the lock
C2_Witness ==
    /\ Cardinality(Writers) = 1
    /\ \E t \in Threads : tpc[t] = "take_write"
    /\ \E t \in Threads : tpc[t] \in {"take_read", "read_rollback"}

(***************************************************************************)
(* Objects: the registry.  push_object and remove_object take &mut self,   *)
(* so the borrow checker admits them only while no guard is alive;         *)
(* get_object and get_object_mut take &self and hand out guards.  One      *)
(* caller drives the registry here; a guard it asks for on an object whose *)
(* SyncState refuses it leaves that caller spinning for ever.              *)
(***************************************************************************)
\* the object values pushed in SpecReg, one per kind
RegPayload(kind) ==
    CASE kind = "EnvironmentObject" ->
             [type |-> "OxygenUser", x |-> 0, y |-> 0, change_per_sec |-> 0]
      [] kind = "Building" ->
             [location |-> <<0, 0>>, facing |-> "North", workspots |-> <<[location |-> <<0, 0>>, occupation |-> [tag |-> "Open"]],
                             [location |-> <<0, 0>>, occupation |-> [tag |-> "Open"]]>>]
      [] kind = "Character" ->
             [location |-> <<0, 0>>, work_goals_order |-> <<"WorkAtVentilation">>,
              current_goal |-> [tag |-> "Idle"], current_task |-> [tag |-> "Idle"],
              current_path |-> <<>>]

\* ids a caller may hold: every id this registry can issue, and one it never issues
IdRange == 0 .. MaxPushes

get_vec_of_type(kind) ==
    CASE kind = "EnvironmentObject" -> environment_objects
      [] kind = "Building" -> buildings
      [] kind = "Character" -> characters

\* the three collections with the one of `kind` replaced by `vec`
set_vec_of_type(kind, vec) ==
    /\ environment_objects' = IF kind = "EnvironmentObject" THEN vec ELSE environment_objects
    /\ buildings' = IF kind = "Building" THEN vec ELSE buildings
    /\ characters' = IF kind = "Character" THEN vec ELSE characters

Running == ~panicked /\ ~spinning

\* the id counter left where it was
next_id_stuck(id) == id

\* mod.rs:46  self.next_object_id += 1
next_id_after(id) == id + 1

\* the new object put in front of the others
vec_push_front(vec, object) == <<object>> \o vec

\* mod.rs:53  Vec::push
vec_push(vec, object) == Append(vec, object)

\* Objects::push_object, with ObjectSync::push_object
push_object(kind, object) ==
    /\ Running
    /\ guards = <<>>
    /\ Len(issued) < MaxPushes
    /\ LET new_object_id == next_object_id
           insert == find_index(new_object_id)
       IN
       /\ next_object_id' = next_id_after(next_object_id)
       /\ set_vec_of_type(kind, vec_push(get_vec_of_type(kind),
                                         [id |-> new_object_id, object |-> object]))
       /\ IF insert.ok
          THEN \* find_index(..).unwrap_err() panics
               /\ panicked' = TRUE
               /\ UNCHANGED <<object_sync, issued>>
          ELSE /\ object_sync' = InsertAt(object_sync, insert.index,
                                          [id |-> new_object_id, state |-> 0])
               /\ issued' = Append(issued, new_object_id)
               /\ UNCHANGED panicked
    /\ UNCHANGED <<tpc, guards, spinning, removed>>

\* mod.rs:62-66  the linear search: the first index holding the id, 0 for None
find_map_index(vec, id) ==
    IF \E i \in DOMAIN vec : vec[i].id = id
    THEN CHOOSE i \in DOMAIN vec : vec[i].id = id /\ \A j \in 1 .. i - 1 : vec[j].id # id
    ELSE 0

\* remove_object with the sync-state entry dropped before the object is looked up
remove_object_sync_first(kind, id) ==
    /\ Running
    /\ guards = <<>>
    /\ LET object_vec == get_vec_of_type(kind)
           remove_index == find_index(id)
           index == find_map_index(object_vec, id)
       IN
       /\ IF ~remove_index.ok
          THEN /\ panicked' = TRUE
               /\ UNCHANGED <<object_sync, environment_objects, buildings, characters, removed>>
          ELSE /\ object_sync' = RemoveAt(object_sync, remove_index.index)
               /\ IF index = 0
                  THEN /\ panicked' = TRUE
                       /\ UNCHANGED <<environment_objects, buildings, characters, removed>>
                  ELSE /\ set_vec_of_type(kind, RemoveAt(object_vec, index))
                       /\ removed' = removed \cup {<<kind, id>>}
                       /\ UNCHANGED panicked
    /\ UNCHANGED <<next_object_id, tpc, guards, spinning, issued>>

\* remove_object that leaves the sync-state entry of the object in the table
remove_object_sync_kept(kind, id) ==
    /\ Running
    /\ guards = <<>>
    /\ LET object_vec == get_vec_of_type(kind)
           index == find_map_index(object_vec, id)
       IN
       /\ IF index = 0
          THEN /\ panicked' = TRUE
               /\ UNCHANGED <<environment_objects, buildings, characters, removed>>
          ELSE /\ set_vec_of_type(kind, RemoveAt(object_vec, index))
               /\ removed' = removed \cup {<<kind, id>>}
               /\ UNCHANGED panicked
    /\ UNCHANGED <<next_object_id, object_sync, tpc, guards, spinning, issued>>

\* Objects::remove_object, with ObjectSync::remove_object
remove_object(kind, id) ==
    /\ Running
    /\ guards = <<>>
    /\ LET object_vec == get_vec_of_type(kind)
           index == find_map_index(object_vec, id)
           remove_index == find_index(id)
       IN
       /\ IF index = 0
          THEN \* find_map(..).unwrap() panics
               /\ panicked' = TRUE
               /\ UNCHANGED <<object_sync, environment_objects, buildings, characters, removed>>
          ELSE /\ set_vec_of_type(kind, RemoveAt(object_vec, index))
               /\ IF ~remove_index.ok
                  THEN \* find_index(..).unwrap() panics
                       /\ panicked' = TRUE
                       /\ UNCHANGED <<object_sync, removed>>
                  ELSE /\ object_sync' = RemoveAt(object_sync, remove_index.index)
                       /\ removed' = removed \cup {<<kind, id>>}
                       /\ UNCHANGED panicked
    /\ UNCHANGED <<next_object_id, tpc, guards, spinning, issued>>

\* Objects::get_object, with LockedObject::new and ObjectSync::take_read_access
get_object(kind, id) ==
    /\ Running
    /\ Len(guards) < MaxGuards
    /\ LET vec == get_vec_of_type(kind)
           found == binary_search_by_key(Ids(vec), id)
       IN
       IF ~found.ok
       THEN \* .ok()? returns None
            UNCHANGED <<object_sync, guards, spinning, panicked>>
       ELSE LET object_id == vec[found.index].id
                sync_index == find_index(object_id)
            IN
            IF ~sync_index.ok
            THEN \* find_index(..).unwrap() panics
                 /\ panicked' = TRUE
                 /\ UNCHANGED <<object_sync, guards, spinning>>
            ELSE IF writer_active(SyncWord(object_id))
            THEN \* the writer is a guard of this same caller: the loop never ends
                 /\ spinning' = TRUE
                 /\ UNCHANGED <<object_sync, guards, panicked>>
            ELSE /\ SetSyncWord(object_id, SyncWord(object_id) + READER)
                 /\ guards' = Append(guards, [id |-> object_id, kind |-> kind, mode |-> "read"])
                 /\ UNCHANGED <<spinning, panicked>>
    /\ UNCHANGED <<next_object_id, environment_objects, buildings, characters, tpc, issued, removed>>

\* Objects::get_object_mut, with LockedObjectMut::new and ObjectSync::take_write_access
get_object_mut(kind, id) ==
    /\ Running
    /\ Len(guards) < MaxGuards
    /\ LET vec == get_vec_of_type(kind)
           found == binary_search_by_key(Ids(vec), id)
       IN
       IF ~found.ok
       THEN UNCHANGED <<object_sync, guards, spinning, panicked>>
       ELSE LET object_id == vec[found.index].id
                sync_index == find_index(object_id)
            IN
            IF ~sync_index.ok
            THEN /\ panicked' = TRUE
                 /\ UNCHANGED <<object_sync, guards, spinning>>
            ELSE IF ~compare_exchange_matches(SyncWord(object_id), 0)
            THEN \* the word is held by a guard of this same caller: the loop never ends
                 /\ spinning' = TRUE
                 /\ UNCHANGED <<object_sync, guards, panicked>>
            ELSE /\ SetSyncWord(object_id, WRITER)
                 /\ guards' = Append(guards, [id |-> object_id, kind |-> kind, mode |-> "write"])
                 /\ UNCHANGED <<spinning, panicked>>
    /\ UNCHANGED <<next_object_id, environment_objects, buildings, characters, tpc, issued, removed>>

\* Drop for LockedObject / LockedObjectMut: free_read_access / free_write_access
drop_guard(g) ==
    /\ Running
    /\ g \in DOMAIN guards
    /\ SetSyncWord(guards[g].id,
                   SyncWord(guards[g].id) - (IF guards[g].mode = "read" THEN READER ELSE WRITER))
    /\ guards' = RemoveAt(guards, g)
    /\ UNCHANGED <<next_object_id, environment_objects, buildings, characters,
                   tpc, spinning, panicked, issued, removed>>

\* Objects::new(), no thread and no guard on it
ObjectsNew ==
    /\ next_object_id = 0
    /\ object_sync = <<>>
    /\ environment_objects = <<>>
    /\ buildings = <<>>
    /\ characters = <<>>
    /\ tpc = [t \in Threads |-> "idle"]
    /\ guards = <<>>
    /\ spinning = FALSE
    /\ panicked = FALSE
    /\ issued = <<>>
    /\ removed = {}

InitReg == ObjectsNew /\ MapNew /\ probe = <<>>

NextReg ==
    \/ \E kind \in Kinds : push_object(kind, RegPayload(kind)) /\ UNCHANGED sim_vars
    \/ \E kind \in Kinds, id \in IdRange : remove_object(kind, id) /\ UNCHANGED sim_vars
    \/ \E kind \in Kinds, id \in IdRange : get_object(kind, id) /\ UNCHANGED sim_vars
    \/ \E kind \in Kinds, id \in IdRange : get_object_mut(kind, id) /\ UNCHANGED sim_vars
    \/ \E g \in 1 .. MaxGuards : drop_guard(g) /\ UNCHANGED sim_vars

SpecReg == InitReg /\ [][NextReg]_vars

LiveIds(kind) == Range(Ids(get_vec_of_type(kind)))
AllLiveIds == LiveIds("EnvironmentObject") \cup LiveIds("Building") \cup LiveIds("Character")

\* C3: every push_object returns an id greater than every id returned before; no two
\* live objects of any kind share an id, and a removed object's id is not handed out again
C3_IdsNeverReused ==
    /\ StrictlyIncreasing(issued)
    /\ Len(environment_objects) + Len(buildings) + Len(characters) = Cardinality(AllLiveIds)
    /\ \A r \in removed : r[2] \notin AllLiveIds

\* an object was removed and a later push_object returned a new id
C3_Witness ==
    /\ Len(issued) >= 3
    /\ \E r \in removed : r[2] < issued[Len(issued)] /\ issued[Len(issued)] \in AllLiveIds

\* C4: each of the three collections is strictly increasing by object id
C4_CollectionsSorted ==
    \A kind \in Kinds : StrictlyIncreasing(Ids(get_vec_of_type(kind)))

\* a collection of two objects whose ids are not adjacent, after a removal
C4_Witness ==
    /\ removed # {}
    /\ \E kind \in Kinds :
          /\ Len(get_vec_of_type(kind)) = 2
          /\ get_vec_of_type(kind)[2].id > get_vec_of_type(kind)[1].id + 1

\* C5: the binary search of get_object / get_object_mut finds an id exactly when an
\* object with that id is in the collection of that kind, the object it finds is the
\* one with that id, every guard handed out is on a live object of its kind, and a
\* removed id is not found
C5_LookupAgreesWithLinearScan ==
    /\ \A kind \in Kinds, id \in IdRange :
          LET vec == get_vec_of_type(kind)
              found == binary_search_by_key(Ids(vec), id)
          IN /\ found.ok <=> (\E i \in DOMAIN vec : vec[i].id = id)
             /\ found.ok => vec[found.index].id = id
    /\ \A g \in DOMAIN guards : guards[g].id \in LiveIds(guards[g].kind)
    /\ \A r \in removed :
          ~binary_search_by_key(Ids(get_vec_of_type(r[1])), r[2]).ok

\* a guard is held on the last of at least two objects of a kind of which an object
\* has been removed
C5_Witness ==
    \E kind \in Kinds :
        /\ Len(get_vec_of_type(kind)) >= 2
        /\ \E g \in DOMAIN guards :
              /\ guards[g].kind = kind
              /\ guards[g].id = get_vec_of_type(kind)[Len(get_vec_of_type(kind))].id
        /\ \E r \in removed : r[1] = kind

\* C25: after any sequence of push_object and remove_object calls the ObjectSync table
\* holds exactly one entry per live object of any kind and is strictly sorted by id: the
\* search of take and free access finds the entry of every live object, and finds none
\* for a removed one.
C25_SyncTableMatchesObjects ==
    /\ StrictlyIncreasing(Ids(object_sync))
    /\ Range(Ids(object_sync)) = AllLiveIds
    /\ \A id \in AllLiveIds :
           find_index(id).ok /\ object_sync[find_index(id).index].id = id
    /\ \A r \in removed : ~find_index(r[2]).ok

\* an object has been removed whose entry lay between the entries of two objects that
\* are still there
C25_Witness ==
    \E r \in removed : \E i \in 1 .. Len(object_sync) - 1 :
        object_sync[i].id < r[2] /\ r[2] < object_sync[i + 1].id

\* C6: remove_object with an id that is not in the collection of its kind panics and
\* leaves next_object_id, the sync-state table and the three collections as they were
C6_RemoveAbsentPanicsUntouched ==
    [][\A kind \in Kinds, id \in IdRange :
          (remove_object(kind, id) /\ id \notin LiveIds(kind))
              => (panicked' /\ UNCHANGED reg_vars)]_vars

\* remove_object has panicked on a registry that holds objects
C6_Witness ==
    /\ panicked
    /\ object_sync # <<>>
    /\ guards = <<>>

is_ground(tile) == tile.tile_type.tag = "Ground"

\* LiquidData::MAX_LEVEL = 3.0
MAX_LEVEL == 3000

\* the level of whatever liquid the tile holds
get_level_of_any(liquids, L) == IF liquids.tag = "None" THEN 0 ELSE liquids.level

\* LiquidData::get_level::<L>: the level of liquid L, 0.0 when the tile holds another
get_level(liquids, L) ==
    CASE L = "AnyLiquid" -> IF liquids.tag = "None" THEN 0 ELSE liquids.level
      [] L = "Water" -> IF liquids.tag = "Water" THEN liquids.level ELSE 0
      [] L = "Lava" -> IF liquids.tag = "Lava" THEN liquids.level ELSE 0

AirSum(air) == FAdd(FAdd(air.nitrogen, air.oxygen), air.fumes)
nitrogen_fraction(air) == FDiv(air.nitrogen, AirSum(air))
oxygen_fraction(air) == FDiv(air.oxygen, AirSum(air))
fumes_fraction(air) == FDiv(air.fumes, AirSum(air))

\* AirData::air_pressure: sum / (1.0 - liquid_level / MAX_LEVEL).max(0.001)
air_pressure(air, liquid_level) ==
    FDiv(AirSum(air), FMax(FSub(FP, FDiv(liquid_level, MAX_LEVEL)), 1))

\* the bound off by one: a neighbour past the last column or row
has_pos_neighbour_past_end(target, size) == target < size

\* lib.rs:222  target_tile_x < WIDTH - 1
has_pos_neighbour(target, size) == target < size - 1

\* Map::<WIDTH, HEIGHT>::neighbour_tile_coords, in the order of the array it filters
neighbour_tile_coords_of(WIDTH, HEIGHT, x, y) ==
    LET has_neg_x == x > 0
        has_neg_y == y > 0
        has_pos_x == has_pos_neighbour(x, WIDTH)
        has_pos_y == has_pos_neighbour(y, HEIGHT)
        candidates == <<
            [keep |-> has_neg_x /\ has_neg_y, at |-> <<x - 1, y - 1>>],
            [keep |-> has_neg_x, at |-> <<x - 1, y>>],
            [keep |-> has_neg_x /\ has_pos_y, at |-> <<x - 1, y + 1>>],
            [keep |-> has_neg_y, at |-> <<x, y - 1>>],
            [keep |-> has_pos_y, at |-> <<x, y + 1>>],
            [keep |-> has_pos_x /\ has_neg_y, at |-> <<x + 1, y - 1>>],
            [keep |-> has_pos_x, at |-> <<x + 1, y>>],
            [keep |-> has_pos_x /\ has_pos_y, at |-> <<x + 1, y + 1>>] >>
        kept == SelectSeq(candidates, LAMBDA c : c.keep)
    IN [i \in DOMAIN kept |-> kept[i].at]

\* the neighbours on the grid of the map
neighbour_tile_coords(x, y) == neighbour_tile_coords_of(Width, Height, x, y)

\* the neighbours that are ground
ground_neighbours(tls, c) ==
    SelectSeq(neighbour_tile_coords(c[1], c[2]), LAMBDA n : is_ground(tls[n]))

\* every (ground tile, ground neighbour) in the order the two nested loops visit them
RECURSIVE ExchangePairsFrom(_, _)
ExchangePairsFrom(tls, i) ==
    IF i > Width * Height THEN <<>>
    ELSE LET c == all_tile_coords[i]
             ns == IF is_ground(tls[c]) THEN ground_neighbours(tls, c) ELSE <<>>
         IN [j \in DOMAIN ns |-> <<c, ns[j]>>] \o ExchangePairsFrom(tls, i + 1)

ExchangePairs(tls) == ExchangePairsFrom(tls, 1)

(***************************************************************************)
(* Air diffusion.                                                          *)
(***************************************************************************)
\* air.rs:12-13  0.01 and 0.05
PRESSURE_SPREAD_RATE == 10
DIFFUSION_SPREAD_RATE == 50

\* air_diff_result[to] += amount; air_diff_result[from] -= amount, per species
Transfer(diff, from, to, amount) ==
    LET given == [diff EXCEPT ![to] = AirData(FAdd(@.nitrogen, amount.nitrogen),
                                               FAdd(@.oxygen, amount.oxygen),
                                               FAdd(@.fumes, amount.fumes))]
    IN [given EXCEPT ![from] = AirData(FSub(@.nitrogen, amount.nitrogen),
                                       FSub(@.oxygen, amount.oxygen),
                                       FSub(@.fumes, amount.fumes))]

\* air.rs:47-50  needed.clamp(-neighbour_amount, own_amount / 8.0) * RATE * delta_time
traded_amount(fraction, neighbour_air_pressure, neighbour_amount, own_amount, delta) ==
    FMul(FMul(FClamp(FMul(fraction, neighbour_air_pressure),
                     FNeg(neighbour_amount), FDiv(own_amount, 8 * FP)),
              DIFFUSION_SPREAD_RATE),
         delta)

trade_panics(neighbour_amount, own_amount) ==
    ClampPanics(FNeg(neighbour_amount), FDiv(own_amount, 8 * FP))

\* one pass of the inner loop of calculate_air_diff: tile c gives to its neighbour n
air_exchange(diff, tls, c, n, delta) ==
    LET air == tls[c].tile_type.air
        own_pressure == air_pressure(air, get_level(tls[c].tile_type.liquids, "AnyLiquid"))
        neighbour_air == tls[n].tile_type.air
        neighbour_air_pressure ==
            air_pressure(neighbour_air, get_level(tls[n].tile_type.liquids, "AnyLiquid"))
        traded == AirData(
            traded_amount(nitrogen_fraction(air), neighbour_air_pressure,
                          neighbour_air.nitrogen, air.nitrogen, delta),
            traded_amount(oxygen_fraction(air), neighbour_air_pressure,
                          neighbour_air.oxygen, air.oxygen, delta),
            traded_amount(fumes_fraction(air), neighbour_air_pressure,
                          neighbour_air.fumes, air.fumes, delta))
        after_trade == Transfer(diff, c, n, traded)
        pressure_delta == FSub(own_pressure, neighbour_air_pressure)
        applied_pressure_delta ==
            FMin(FMul(FSqrt(FMul(pressure_delta, PRESSURE_SPREAD_RATE)), delta),
                 FDiv(own_pressure, 8 * FP))
        pushed == AirData(FMul(applied_pressure_delta, nitrogen_fraction(air)),
                          FMul(applied_pressure_delta, oxygen_fraction(air)),
                          FMul(applied_pressure_delta, fumes_fraction(air)))
    IN IF FLt(neighbour_air_pressure, own_pressure)
       THEN Transfer(after_trade, c, n, pushed)
       ELSE after_trade

air_exchange_panics(tls, c, n) ==
    LET air == tls[c].tile_type.air
        neighbour_air == tls[n].tile_type.air
    IN \/ trade_panics(neighbour_air.nitrogen, air.nitrogen)
       \/ trade_panics(neighbour_air.oxygen, air.oxygen)
       \/ trade_panics(neighbour_air.fumes, air.fumes)

\* air.rs:17-89  the loops from the i-th exchange on; indexing outside the buffer
\* or a panicking clamp ends them
RECURSIVE AirDiffFold(_, _, _, _, _)
AirDiffFold(diff, tls, pairs, i, delta) ==
    IF i > Len(pairs) THEN [panic |-> FALSE, diff |-> diff]
    ELSE IF \/ ~({pairs[i][1], pairs[i][2]} \subseteq DOMAIN diff)
            \/ air_exchange_panics(tls, pairs[i][1], pairs[i][2])
    THEN [panic |-> TRUE, diff |-> AirDiffDefault]
    ELSE AirDiffFold(air_exchange(diff, tls, pairs[i][1], pairs[i][2], delta),
                     tls, pairs, i + 1, delta)

\* Map::calculate_air_diff: the buffer of deltas, or a panic of f32::clamp
calculate_air_diff(tls, delta) == AirDiffFold(AirDiffDefault, tls, ExchangePairs(tls), 1, delta)

\* air.rs:100-102  air.x.add(diff.x).max(0.0)
clamped_sum(amount, diff) == FMax(FAdd(amount, diff), 0)

set_air(tile, air) == [tile EXCEPT !.tile_type.air = air]
set_liquids(tile, liquids) == [tile EXCEPT !.tile_type.liquids = liquids]

\* a wall is given the air of its delta and becomes ground
add_air_diff_walls_opened(tls, diff) ==
    [c \in Coords |->
        IF is_ground(tls[c])
        THEN set_air(tls[c], AirData(clamped_sum(tls[c].tile_type.air.nitrogen, diff[c].nitrogen),
                                     clamped_sum(tls[c].tile_type.air.oxygen, diff[c].oxygen),
                                     clamped_sum(tls[c].tile_type.air.fumes, diff[c].fumes)))
        ELSE Ground(tls[c].ground_level, diff[c], LiquidNone)]

\* air.rs:95-103  the first loop of apply_air_diff
add_air_diff(tls, diff) ==
    [c \in Coords |->
        IF is_ground(tls[c])
        THEN set_air(tls[c], AirData(clamped_sum(tls[c].tile_type.air.nitrogen, diff[c].nitrogen),
                                     clamped_sum(tls[c].tile_type.air.oxygen, diff[c].oxygen),
                                     clamped_sum(tls[c].tile_type.air.fumes, diff[c].fumes)))
        ELSE tls[c]]

(***************************************************************************)
(* Facing and the effectors the objects expose (ObjectProperties).         *)
(***************************************************************************)
Facings == <<"North", "East", "South", "West">>
FacingIndex(facing) == CHOOSE i \in 1 .. 4 : Facings[i] = facing

\* the discriminants added and cut off at West instead of wrapped
rotate_saturating(facing, applied) ==
    LET sum == FacingIndex(facing) - 1 + FacingIndex(applied) - 1
    IN Facings[(IF sum > 3 THEN 3 ELSE sum) + 1]

\* Facing::rotate: (self as u8 + applied as u8) % 4
rotate(facing, applied) == Facings[((FacingIndex(facing) - 1 + FacingIndex(applied) - 1) % 4) + 1]

\* the step East and South allowed up to the size itself
move_coords_in_direction_past_end(WIDTH, HEIGHT, facing, x, y) ==
    CASE facing = "North" -> IF y > 0 THEN <<<<x, y - 1>>>> ELSE <<>>
      [] facing = "East" -> IF x < WIDTH THEN <<<<x + 1, y>>>> ELSE <<>>
      [] facing = "South" -> IF y < HEIGHT THEN <<<<x, y + 1>>>> ELSE <<>>
      [] facing = "West" -> IF x > 0 THEN <<<<x - 1, y>>>> ELSE <<>>

\* Facing::move_coords_in_direction::<WIDTH, HEIGHT>: the coordinates one step on,
\* <<>> for None
move_coords_in_direction_of(WIDTH, HEIGHT, facing, x, y) ==
    CASE facing = "North" -> IF y > 0 THEN <<<<x, y - 1>>>> ELSE <<>>
      [] facing = "East" -> IF x < WIDTH - 1 THEN <<<<x + 1, y>>>> ELSE <<>>
      [] facing = "South" -> IF y < HEIGHT - 1 THEN <<<<x, y + 1>>>> ELSE <<>>
      [] facing = "West" -> IF x > 0 THEN <<<<x - 1, y>>>> ELSE <<>>

move_coords_in_direction(facing, x, y) == move_coords_in_direction_of(Width, Height, facing, x, y)

\* WorkSpotOccupation::is_working / is_open
is_working(occupation) == occupation.tag = "Working"
is_open(occupation) == occupation.tag = "Open"

\* the objects of the three collections, tagged with their kind
Tagged(kind, vec) == [i \in DOMAIN vec |-> [kind |-> kind, id |-> vec[i].id, object |-> vec[i].object]]

\* the buildings chained in front of the environment objects
get_all_objects_buildings_first(env, blds, chars) ==
    Tagged("Building", blds) \o Tagged("EnvironmentObject", env) \o Tagged("Character", chars)

\* Objects::get_all_objects_mut: environment objects, then buildings, then characters
get_all_objects(env, blds, chars) ==
    Tagged("EnvironmentObject", env) \o Tagged("Building", blds) \o Tagged("Character", chars)

\* HandCrankedVentilator: 0.25 * (working / workspots.len()).powf(2.0)
ventilator_amount(workspots) ==
    LET working == Cardinality({i \in DOMAIN workspots : is_working(workspots[i].occupation)})
        ratio == FDiv(working * FP, Len(workspots) * FP)
    IN FMul(250, FMul(ratio, ratio))

\* Character::oxygen_users: change_per_sec 0.00001, below the resolution 1 / FP
CHARACTER_OXYGEN_PER_SEC == 0

\* the tile a position lies on: floor, `as usize`
tile_of(location) == <<location[1] \div FP, location[2] \div FP>>

air_levelers(o) ==
    IF o.kind = "EnvironmentObject" /\ o.object.type = "AirLeveler" THEN <<o.object>> ELSE <<>>

oxygen_users(o) ==
    CASE o.kind = "EnvironmentObject" ->
             IF o.object.type = "OxygenUser" THEN <<o.object>> ELSE <<>>
      [] o.kind = "Building" -> <<>>
      [] o.kind = "Character" ->
             <<[x |-> tile_of(o.object.location)[1], y |-> tile_of(o.object.location)[2],
                change_per_sec |-> CHARACTER_OXYGEN_PER_SEC]>>

air_pushers(o) ==
    CASE o.kind = "EnvironmentObject" ->
             IF o.object.type = "AirPusher" THEN <<o.object>> ELSE <<>>
      [] o.kind = "Building" ->
             <<[x |-> o.object.location[1], y |-> o.object.location[2],
                direction |-> rotate(o.object.facing, "North"),
                amount |-> ventilator_amount(o.object.workspots)]>>
      [] o.kind = "Character" -> <<>>

liquid_levelers(o) ==
    IF o.kind = "EnvironmentObject" /\ o.object.type = "LiquidLeveler" THEN <<o.object>> ELSE <<>>

\* air.rs:106-114
level_air(tls, air_leveler) ==
    LET c == <<air_leveler.x, air_leveler.y>>
    IN IF is_ground(tls[c])
       THEN [tls EXCEPT ![c] = set_air(@, AirData(air_leveler.nitrogen, air_leveler.oxygen,
                                                  air_leveler.fumes))]
       ELSE tls

\* the oxygen that is there is used up when there is less than asked for
use_oxygen_partial(tls, oxygen_user, delta) ==
    LET c == <<oxygen_user.x, oxygen_user.y>>
        asked == FMul(oxygen_user.change_per_sec, delta)
    IN IF ~is_ground(tls[c]) THEN tls
       ELSE LET used == FMin(asked, tls[c].tile_type.air.oxygen)
            IN [tls EXCEPT ![c] = set_air(@, AirData(@.tile_type.air.nitrogen,
                                                     FSub(@.tile_type.air.oxygen, used),
                                                     FAdd(@.tile_type.air.fumes, used)))]

\* air.rs:116-127
use_oxygen(tls, oxygen_user, delta) ==
    LET c == <<oxygen_user.x, oxygen_user.y>>
        used == FMul(oxygen_user.change_per_sec, delta)
    IN IF ~is_ground(tls[c]) THEN tls
       ELSE IF FLt(tls[c].tile_type.air.oxygen, used) THEN tls
       ELSE [tls EXCEPT ![c] = set_air(@, AirData(@.tile_type.air.nitrogen,
                                                  FSub(@.tile_type.air.oxygen, used),
                                                  FAdd(@.tile_type.air.fumes, used)))]

\* the air is given to the target and kept by the source
push_air_kept(tls, air_pusher, delta) ==
    LET source == <<air_pusher.x, air_pusher.y>>
        pushed_to == move_coords_in_direction(air_pusher.direction, air_pusher.x, air_pusher.y)
    IN IF pushed_to = <<>> THEN tls
       ELSE IF ~is_ground(tls[source]) THEN tls
       ELSE IF ~is_ground(tls[pushed_to[1]]) THEN tls
       ELSE LET source_air == tls[source].tile_type.air
            IN [tls EXCEPT ![pushed_to[1]] =
                   set_air(@, AirData(FAdd(@.tile_type.air.nitrogen,
                                           FMul(FMul(source_air.nitrogen, air_pusher.amount), delta)),
                                      FAdd(@.tile_type.air.oxygen,
                                           FMul(FMul(source_air.oxygen, air_pusher.amount), delta)),
                                      FAdd(@.tile_type.air.fumes,
                                           FMul(FMul(source_air.fumes, air_pusher.amount), delta))))]

\* air.rs:129-159
push_air(tls, air_pusher, delta) ==
    LET source == <<air_pusher.x, air_pusher.y>>
        pushed_to == move_coords_in_direction(air_pusher.direction, air_pusher.x, air_pusher.y)
    IN IF pushed_to = <<>> THEN tls
       ELSE IF ~is_ground(tls[source]) THEN tls
       ELSE IF ~is_ground(tls[pushed_to[1]]) THEN tls
       ELSE LET source_air == tls[source].tile_type.air
                nitrogen_taken == FMul(FMul(source_air.nitrogen, air_pusher.amount), delta)
                oxygen_taken == FMul(FMul(source_air.oxygen, air_pusher.amount), delta)
                fumes_taken == FMul(FMul(source_air.fumes, air_pusher.amount), delta)
                given == [tls EXCEPT ![pushed_to[1]] =
                             set_air(@, AirData(FAdd(@.tile_type.air.nitrogen, nitrogen_taken),
                                                FAdd(@.tile_type.air.oxygen, oxygen_taken),
                                                FAdd(@.tile_type.air.fumes, fumes_taken)))]
            IN [given EXCEPT ![source] =
                   set_air(@, AirData(FSub(@.tile_type.air.nitrogen, nitrogen_taken),
                                      FSub(@.tile_type.air.oxygen, oxygen_taken),
                                      FSub(@.tile_type.air.fumes, fumes_taken)))]

RECURSIVE LevelAirAll(_, _, _)
LevelAirAll(tls, levelers, i) ==
    IF i > Len(levelers) THEN tls ELSE LevelAirAll(level_air(tls, levelers[i]), levelers, i + 1)

RECURSIVE UseOxygenAll(_, _, _, _)
UseOxygenAll(tls, users, i, delta) ==
    IF i > Len(users) THEN tls
    ELSE UseOxygenAll(use_oxygen(tls, users[i], delta), users, i + 1, delta)

RECURSIVE PushAirAll(_, _, _, _)
PushAirAll(tls, pushers, i, delta) ==
    IF i > Len(pushers) THEN tls
    ELSE PushAirAll(push_air(tls, pushers[i], delta), pushers, i + 1, delta)

\* air.rs:105-160  the loop over the objects: levelers, users, pushers of each in turn
RECURSIVE AirEffectors(_, _, _, _)
AirEffectors(tls, objs, i, delta) ==
    IF i > Len(objs) THEN tls
    ELSE LET levelled == LevelAirAll(tls, air_levelers(objs[i]), 1)
             used == UseOxygenAll(levelled, oxygen_users(objs[i]), 1, delta)
             pushed == PushAirAll(used, air_pushers(objs[i]), 1, delta)
         IN AirEffectors(pushed, objs, i + 1, delta)

\* Map::apply_air_diff
apply_air_diff(tls, objs, diff, delta) == AirEffectors(add_air_diff(tls, diff), objs, 1, delta)

(***************************************************************************)
(* Liquid spreading.                                                       *)
(***************************************************************************)
\* Water: 0.01, 0.01   Lava: 0.001, 0.1
WATER_SPREAD_RATE == 10
WATER_MINIMAL_HEIGHT_TO_SPREAD == 10
LAVA_SPREAD_RATE == 1
LAVA_MINIMAL_HEIGHT_TO_SPREAD == 100

SPREAD_RATE(L) == IF L = "Water" THEN WATER_SPREAD_RATE ELSE LAVA_SPREAD_RATE
MINIMAL_HEIGHT_TO_SPREAD(L) ==
    IF L = "Water" THEN WATER_MINIMAL_HEIGHT_TO_SPREAD ELSE LAVA_MINIMAL_HEIGHT_TO_SPREAD

\* a ground tile spreads whatever its level
spreads_below_minimum(tls, c, L) == is_ground(tls[c])

\* liquids.rs:14-20  the tile spreads liquid L at all
spreads(tls, c, L) ==
    /\ is_ground(tls[c])
    /\ ~FLt(get_level(tls[c].tile_type.liquids, L), MINIMAL_HEIGHT_TO_SPREAD(L))

\* liquids.rs:32-46  one pass of the inner loop: tile c gives liquid L to its neighbour n
liquid_exchange(diff, tls, c, n, L, delta) ==
    LET liquid_level == get_level(tls[c].tile_type.liquids, L)
        total_level == FAdd(tls[c].ground_level, liquid_level)
        neighbour_liquid_level == get_level(tls[n].tile_type.liquids, L)
        neighbour_total_level == FAdd(tls[n].ground_level, neighbour_liquid_level)
        height_delta == FSub(total_level, neighbour_total_level)
        applied_height_delta ==
            FMin(FMul(FSqrt(FMul(height_delta, SPREAD_RATE(L))), delta), FDiv(liquid_level, 800))
    IN IF FGe(neighbour_total_level, total_level) \/ FGe(neighbour_liquid_level, MAX_LEVEL)
       THEN diff
       ELSE [diff EXCEPT ![n] = FAdd(@, applied_height_delta),
                         ![c] = FSub(@, applied_height_delta)]

\* liquids.rs:8-47  the loops from the i-th exchange on, within the buffer's bounds
RECURSIVE LiquidDiffFold(_, _, _, _, _, _)
LiquidDiffFold(diff, tls, pairs, i, L, delta) ==
    IF i > Len(pairs) \/ ~({pairs[i][1], pairs[i][2]} \subseteq DOMAIN diff) THEN diff
    ELSE LiquidDiffFold(IF spreads(tls, pairs[i][1], L)
                        THEN liquid_exchange(diff, tls, pairs[i][1], pairs[i][2], L, delta)
                        ELSE diff,
                        tls, pairs, i + 1, L, delta)

\* Map::calculate_liquid_diff::<L>
calculate_liquid_diff(tls, L, delta) ==
    LiquidDiffFold(LiquidDiffDefault, tls, ExchangePairs(tls), 1, L, delta)

\* the difference kept as water whatever its sign
liquid_of_difference_unsigned(difference) == Water(difference)

\* liquids.rs:74-78  water when the difference is >= 0.0, lava of the opposite level if not
liquid_of_difference(difference) ==
    IF FGe(difference, 0) THEN Water(difference) ELSE Lava(FNeg(difference))

\* the ground left as it is
solidify_never(tile, new_water_level, new_lava_level) == tile

\* the ground sinks by |difference| where water and lava are both present
solidify_sunk(tile, new_water_level, new_lava_level) ==
    IF FGt(new_water_level, 0) /\ FGt(new_lava_level, 0)
    THEN [tile EXCEPT !.ground_level = FSub(@, FAbs(FSub(new_water_level, new_lava_level)))]
    ELSE tile

\* liquids.rs:70-72  water and lava both present: the ground rises by |difference|
solidify(tile, new_water_level, new_lava_level) ==
    IF FGt(new_water_level, 0) /\ FGt(new_lava_level, 0)
    THEN [tile EXCEPT !.ground_level = FAdd(@, FAbs(FSub(new_water_level, new_lava_level)))]
    ELSE tile

\* liquids.rs:62-63  (level + diff).max(0.0)
new_level(liquids, L, change) == FMax(FAdd(get_level(liquids, L), change), 0)

\* liquids.rs:62-79  the new liquids and ground level of one ground tile
mix_liquids(tile, water_change, lava_change) ==
    LET new_water_level == new_level(tile.tile_type.liquids, "Water", water_change)
        new_lava_level == new_level(tile.tile_type.liquids, "Lava", lava_change)
        difference == FSub(new_water_level, new_lava_level)
    IN IF new_water_level = 0 /\ new_lava_level = 0
       THEN set_liquids(tile, LiquidNone)
       ELSE set_liquids(solidify(tile, new_water_level, new_lava_level),
                        liquid_of_difference(difference))

\* liquids.rs:57-80  the first loop of apply_liquid_diff
add_liquid_diff(tls, water_changes, lava_changes) ==
    [c \in Coords |->
        IF is_ground(tls[c]) THEN mix_liquids(tls[c], water_changes[c], lava_changes[c]) ELSE tls[c]]

\* liquids.rs:86-90
level_liquid(tls, liquid_leveler) ==
    LET c == <<liquid_leveler.x, liquid_leveler.y>>
    IN IF is_ground(tls[c]) THEN [tls EXCEPT ![c] = set_liquids(@, liquid_leveler.target)] ELSE tls

RECURSIVE LevelLiquidAll(_, _, _)
LevelLiquidAll(tls, levelers, i) ==
    IF i > Len(levelers) THEN tls
    ELSE LevelLiquidAll(level_liquid(tls, levelers[i]), levelers, i + 1)

RECURSIVE LiquidEffectors(_, _, _)
LiquidEffectors(tls, objs, i) ==
    IF i > Len(objs) THEN tls
    ELSE LiquidEffectors(LevelLiquidAll(tls, liquid_levelers(objs[i]), 1), objs, i + 1)

\* the levelers act before the deltas are added
apply_liquid_diff_levelled_first(tls, objs, water_changes, lava_changes) ==
    add_liquid_diff(LiquidEffectors(tls, objs, 1), water_changes, lava_changes)

\* Map::apply_liquid_diff
apply_liquid_diff(tls, objs, water_changes, lava_changes) ==
    LiquidEffectors(add_liquid_diff(tls, water_changes, lava_changes), objs, 1)

(***************************************************************************)
(* AI: goal selection over the characters and the change-set it buffers.   *)
(***************************************************************************)
CharacterGoalIdle == [tag |-> "Idle"]
CharacterGoalWork(work_goal) == [tag |-> "Work", goal |-> work_goal]
CharacterGoalSurvive(survive_goal) == [tag |-> "Survive", goal |-> survive_goal]
CharacterTaskIdle == [tag |-> "Idle"]
WorkAtSpot(building, workspot_index) ==
    [tag |-> "WorkAtSpot", building |-> building, workspot_index |-> workspot_index]
Open == [tag |-> "Open"]
Claimed(claimer) == [tag |-> "Claimed", by |-> claimer]
Working(claimer) == [tag |-> "Working", by |-> claimer]

SURVIVE_GOAL_ORDER == <<"RunFromDanger", "PreventStarvation">>

\* characters.rs:90  2.0
LIQUID_DROWN_HEIGHT == 2000

\* Facing::rotate_f32_coords: about the middle of tile 0,0
rotate_f32_coords(facing, location) ==
    LET x == location[1] - (FP \div 2)
        y == location[2] - (FP \div 2)
        turned == CASE facing = "North" -> <<x, y>>
                    [] facing = "East" -> <<-y, x>>
                    [] facing = "South" -> <<-x, -y>>
                    [] facing = "West" -> <<y, -x>>
    IN <<turned[1] + (FP \div 2), turned[2] + (FP \div 2)>>

\* Building::workspots: the workspots with absolute locations
workspots(building) ==
    [i \in DOMAIN building.workspots |->
        [location |-> <<rotate_f32_coords(building.facing, building.workspots[i].location)[1]
                            + building.location[1] * FP,
                        rotate_f32_coords(building.facing, building.workspots[i].location)[2]
                            + building.location[2] * FP>>,
         occupation |-> building.workspots[i].occupation]]

\* Vec2::as_uvec2: toward zero, negatives saturate at 0
as_uvec2(pos) == <<IF pos[1] < 0 THEN 0 ELSE pos[1] \div FP, IF pos[2] < 0 THEN 0 ELSE pos[2] \div FP>>

\* Map::position_penalty(pos, true, true) is Some
walkable(tls, pos) ==
    LET tile == tls[as_uvec2(pos)]
        liquid_level == get_level(tile.tile_type.liquids, "AnyLiquid")
        will_drown == FGt(liquid_level, LIQUID_DROWN_HEIGHT)
        is_lava == FGt(get_level(tile.tile_type.liquids, "Lava"), 1)
    IN is_ground(tile) /\ ~will_drown /\ ~is_lava

\* Map::find_path: <<from, to>> when both ends are walkable, <<>> for None
find_path(tls, from, to) ==
    IF walkable(tls, from) /\ walkable(tls, to) THEN <<from, to>> ELSE <<>>

\* Vec2::distance
distance(from, to) ==
    ISqrt((to[1] - from[1]) * (to[1] - from[1]) + (to[2] - from[2]) * (to[2] - from[2]))

\* Path::total_length: the windows of two points summed, 0.0 for fewer than two points
RECURSIVE total_length(_)
total_length(points) ==
    IF Len(points) < 2 THEN 0
    ELSE FAdd(distance(points[1], points[2]), total_length(Tail(points)))

\* characters.rs:128-149  open workspots with a path, buildings then workspots in order
RECURSIVE CandidatesFrom(_, _, _, _)
CandidatesFrom(tls, blds, from, b) ==
    IF b > Len(blds) THEN <<>>
    ELSE LET spots == workspots(blds[b].object)
             open == SelectSeq([i \in DOMAIN spots |->
                                   [workspot_index |-> i - 1, building |-> blds[b].id,
                                    occupation |-> spots[i].occupation,
                                    path |-> find_path(tls, from, spots[i].location)]],
                               LAMBDA w : is_open(w.occupation) /\ w.path # <<>>)
         IN open \o CandidatesFrom(tls, blds, from, b + 1)

\* the last of the shortest is taken
closest_workspot_last(candidates) ==
    IF candidates = <<>> THEN 0
    ELSE CHOOSE i \in DOMAIN candidates :
             /\ \A j \in DOMAIN candidates :
                    total_length(candidates[i].path) <= total_length(candidates[j].path)
             /\ \A j \in i + 1 .. Len(candidates) :
                    total_length(candidates[j].path) # total_length(candidates[i].path)

\* Iterator::min_by_key: the first of the shortest, 0 when there is none
closest_workspot(candidates) ==
    IF candidates = <<>> THEN 0
    ELSE CHOOSE i \in DOMAIN candidates :
             /\ \A j \in DOMAIN candidates :
                    total_length(candidates[i].path) <= total_length(candidates[j].path)
             /\ \A j \in 1 .. i - 1 :
                    total_length(candidates[j].path) > total_length(candidates[i].path)

\* the work goals evaluated whatever the character pursues already
RECURSIVE WorkGoalChanges_reevaluated(_, _, _, _)
WorkGoalChanges_reevaluated(tls, blds, character, g) ==
    IF g > Len(character.object.work_goals_order) THEN <<>>
    ELSE LET candidates == CandidatesFrom(tls, blds, character.object.location, 1)
             closest == closest_workspot(candidates)
             found == IF closest = 0 THEN <<>>
                      ELSE <<[character_id |-> character.id,
                              new_goal |-> CharacterGoalWork("WorkAtVentilation"),
                              new_task |-> WorkAtSpot(candidates[closest].building,
                                                      candidates[closest].workspot_index),
                              new_path |-> candidates[closest].path]>>
         IN found \o WorkGoalChanges_reevaluated(tls, blds, character, g + 1)

\* characters.rs:120-167  the loop over the work goals of one character, from goal g on
RECURSIVE WorkGoalChanges(_, _, _, _)
WorkGoalChanges(tls, blds, character, g) ==
    IF g > Len(character.object.work_goals_order) THEN <<>>
    ELSE IF character.object.current_goal = CharacterGoalWork(character.object.work_goals_order[g])
         THEN <<>>
         ELSE LET candidates == CandidatesFrom(tls, blds, character.object.location, 1)
                  closest == closest_workspot(candidates)
                  found == IF closest = 0 THEN <<>>
                           ELSE <<[character_id |-> character.id,
                                   new_goal |-> CharacterGoalWork("WorkAtVentilation"),
                                   new_task |-> WorkAtSpot(candidates[closest].building,
                                                           candidates[closest].workspot_index),
                                   new_path |-> candidates[closest].path]>>
              IN found \o WorkGoalChanges(tls, blds, character, g + 1)

\* characters.rs:96-118  the character already follows a survive goal
surviving(character) ==
    \E i \in DOMAIN SURVIVE_GOAL_ORDER :
        character.object.current_goal = CharacterGoalSurvive(SURVIVE_GOAL_ORDER[i])

\* Map::calculate_ai_changes
RECURSIVE AiChangesFrom(_, _, _, _)
AiChangesFrom(tls, blds, chars, c) ==
    IF c > Len(chars) THEN <<>>
    ELSE (IF surviving(chars[c]) THEN <<>> ELSE WorkGoalChanges(tls, blds, chars[c], 1))
         \o AiChangesFrom(tls, blds, chars, c + 1)

calculate_ai_changes(tls, blds, chars) == AiChangesFrom(tls, blds, chars, 1)

\* Objects::get_object_mut on a collection: the index of the id, 0 for None
lookup(vec, id) ==
    LET found == binary_search_by_key(Ids(vec), id)
    IN IF found.ok THEN found.index ELSE 0

\* Building::claim_workspot is Ok
claimable(occupation, claimer) == is_open(occupation) \/ occupation = Claimed(claimer)

set_occupation(blds, b, workspot_index, occupation) ==
    [blds EXCEPT ![b].object.workspots[workspot_index + 1].occupation = occupation]

\* characters.rs:176-225  one pass of the loop of apply_ai_changes
apply_ai_change(objs, ai_change) ==
    LET b == lookup(objs.buildings, ai_change.new_task.building)
        index == ai_change.new_task.workspot_index
        c == lookup(objs.characters, ai_change.character_id)
    IN IF b = 0 THEN objs
       ELSE IF ~claimable(objs.buildings[b].object.workspots[index + 1].occupation,
                          ai_change.character_id)
       THEN objs
       ELSE LET claimed == set_occupation(objs.buildings, b, index,
                                          Claimed(ai_change.character_id))
            IN IF c = 0 THEN [objs EXCEPT !.buildings = claimed]
               ELSE LET old_task == objs.characters[c].object.current_task
                        old == IF old_task.tag = "WorkAtSpot"
                               THEN lookup(claimed, old_task.building) ELSE 0
                        released == IF old = 0 THEN claimed
                                    ELSE set_occupation(claimed, old, old_task.workspot_index, Open)
                    IN [buildings |-> released,
                        characters |-> [objs.characters EXCEPT
                                           ![c].object.current_goal = ai_change.new_goal,
                                           ![c].object.current_task = ai_change.new_task,
                                           ![c].object.current_path = ai_change.new_path]]

\* Map::apply_ai_changes
RECURSIVE apply_ai_changes(_, _, _)
apply_ai_changes(objs, changes, i) ==
    IF i > Len(changes) THEN objs
    ELSE apply_ai_changes(apply_ai_change(objs, changes[i]), changes, i + 1)

(***************************************************************************)
(* Map::perform_ai_tick: every character walks along its path; one that    *)
(* gets to the end of it starts to work.                                   *)
(***************************************************************************)
\* characters.rs:12  1.2 meters per second
CHARACTER_WALK_SPEED == 1200

\* f32::EPSILON, about 1.2e-7: the smallest distance the resolution 1 / FP tells from 0
EPSILON == 1

\* characters.rs:236-248  one pass of the while loop
walk_segment(walker) ==
    LET walk_vector == <<walker.points[2][1] - walker.points[1][1],
                         walker.points[2][2] - walker.points[1][2]>>
        walk_distance == distance(walker.points[1], walker.points[2])
        walk_direction == <<FDiv(walk_vector[1], walk_distance),
                            FDiv(walk_vector[2], walk_distance)>>
        distance_walked == FMin(walk_distance, walker.distance_to_go)
        location == <<FAdd(walker.location[1], FMul(walk_direction[1], distance_walked)),
                      FAdd(walker.location[2], FMul(walk_direction[2], distance_walked))>>
        moved == [walker.points EXCEPT ![1] = location]
    IN [location |-> location,
        points |-> IF FLt(distance(moved[1], moved[2]), EPSILON) THEN Tail(moved) ELSE moved,
        distance_to_go |-> FSub(walker.distance_to_go, distance_walked)]

\* characters.rs:235-249  while distance_to_go.min(path.total_length()) > f32::EPSILON
RECURSIVE walk(_)
walk(walker) ==
    IF FGt(FMin(walker.distance_to_go, total_length(walker.points)), EPSILON)
    THEN walk(walk_segment(walker))
    ELSE walker

\* the occupation left as it is and the work refused
start_work_refused(occupation, claimer) == [ok |-> FALSE, occupation |-> occupation]

\* Building::start_work_at_workspot: Ok with the new occupation, or Err
start_work_at_workspot(occupation, claimer) ==
    IF is_open(occupation) \/ occupation = Claimed(claimer) \/ occupation = Working(claimer)
    THEN [ok |-> TRUE, occupation |-> Working(claimer)]
    ELSE [ok |-> FALSE, occupation |-> occupation]

\* characters.rs:262-287  the character has arrived at the end of its path
arrive(world, c) ==
    LET character == world.characters[c]
        task == character.object.current_task
        idle == [world.characters EXCEPT ![c].object.current_goal = CharacterGoalIdle,
                                         ![c].object.current_task = CharacterTaskIdle]
    IN IF task.tag # "WorkAtSpot" THEN [world EXCEPT !.panic = TRUE]
       ELSE LET b == lookup(world.buildings, task.building)
            IN IF b = 0 THEN [world EXCEPT !.characters = idle]
               ELSE LET started == start_work_at_workspot(
                                       world.buildings[b].object.workspots[
                                           task.workspot_index + 1].occupation,
                                       character.id)
                    IN IF started.ok
                       THEN [world EXCEPT !.buildings = set_occupation(
                                              @, b, task.workspot_index, started.occupation)]
                       ELSE [world EXCEPT !.characters = idle]

\* characters.rs:231-288  one pass of the loop over the characters
tick_character(world, c, delta) ==
    LET character == world.characters[c].object
    IN IF character.current_path = <<>> THEN world
       ELSE LET walked == walk([location |-> character.location,
                                points |-> character.current_path,
                                distance_to_go |-> FMul(CHARACTER_WALK_SPEED, delta)])
            IN IF Len(walked.points) < 2
               THEN arrive([world EXCEPT !.characters[c].object.location = walked.points[1],
                                         !.characters[c].object.current_path = <<>>], c)
               ELSE [world EXCEPT !.characters[c].object.location = walked.location,
                                  !.characters[c].object.current_path = walked.points]

\* Map::perform_ai_tick, from the c-th character on
RECURSIVE perform_ai_tick_from(_, _, _)
perform_ai_tick_from(world, c, delta) ==
    IF c > Len(world.characters) \/ world.panic THEN world
    ELSE perform_ai_tick_from(tick_character(world, c, delta), c + 1, delta)

(***************************************************************************)
(* The guards of the AI task, the apply steps and perform_ai_tick.  Every  *)
(* object handed out by get_objects, get_all_objects_mut or get_object_mut *)
(* is a guard: its constructor spins for the access and its Drop frees it. *)
(* The operators below list the takes and frees of one call in program     *)
(* order; run_guards replays them on the SyncState words.  No other thread *)
(* holds a guard meanwhile (the air and liquid tasks read tiles only), so  *)
(* a take that the word refuses can only wait for a guard of its own       *)
(* thread, and never returns.                                              *)
(***************************************************************************)
take_read_access(id) == [op |-> "take_read", id |-> id]
free_read_access(id) == [op |-> "free_read", id |-> id]
take_write_access(id) == [op |-> "take_write", id |-> id]
free_write_access(id) == [op |-> "free_write", id |-> id]

\* mod.rs:185-207  ObjectSync::take_*_access / free_*_access, one after the other
RECURSIVE run_guards(_, _, _)
run_guards(sync, events, i) ==
    IF i > Len(events) THEN [outcome |-> "returned", sync |-> sync]
    ELSE LET found == binary_search_by_key(Ids(sync), events[i].id)
             word == sync[found.index].state
         IN IF ~found.ok THEN [outcome |-> "panicked", sync |-> sync]
            ELSE IF events[i].op = "take_read"
            THEN IF writer_active(word) THEN [outcome |-> "spinning", sync |-> sync]
                 ELSE run_guards([sync EXCEPT ![found.index].state = word + READER],
                                 events, i + 1)
            ELSE IF events[i].op = "take_write"
            THEN IF ~compare_exchange_matches(word, 0)
                 THEN [outcome |-> "spinning", sync |-> sync]
                 ELSE run_guards([sync EXCEPT ![found.index].state = WRITER], events, i + 1)
            ELSE IF events[i].op = "free_read"
            THEN run_guards([sync EXCEPT ![found.index].state = word - READER], events, i + 1)
            ELSE run_guards([sync EXCEPT ![found.index].state = word - WRITER], events, i + 1)

\* the buildings are taken for writing
building_writes(blds) ==
    [i \in 1 .. 2 * Len(blds) |->
        IF i % 2 = 1 THEN take_write_access(blds[(i + 1) \div 2].id)
        ELSE free_write_access(blds[i \div 2].id)]

\* characters.rs:128-134  get_objects::<Building>(): each building read and dropped
building_reads(blds) ==
    [i \in 1 .. 2 * Len(blds) |->
        IF i % 2 = 1 THEN take_read_access(blds[(i + 1) \div 2].id)
        ELSE free_read_access(blds[i \div 2].id)]

\* characters.rs:120-167  the buildings read for the work goals of one character
RECURSIVE work_goal_guards(_, _, _)
work_goal_guards(blds, character, g) ==
    IF g > Len(character.object.work_goals_order) THEN <<>>
    ELSE IF character.object.current_goal = CharacterGoalWork(character.object.work_goals_order[g])
         THEN <<>>
         ELSE building_reads(blds) \o work_goal_guards(blds, character, g + 1)

\* characters.rs:95  get_objects::<Character>(): the character read for the whole pass
RECURSIVE calculate_ai_guards(_, _, _)
calculate_ai_guards(blds, chars, c) ==
    IF c > Len(chars) THEN <<>>
    ELSE <<take_read_access(chars[c].id)>>
         \o (IF surviving(chars[c]) THEN <<>> ELSE work_goal_guards(blds, chars[c], 1))
         \o <<free_read_access(chars[c].id)>>
         \o calculate_ai_guards(blds, chars, c + 1)

\* air.rs:105  get_all_objects_mut(): each object written and dropped
apply_air_guards(objs) ==
    [i \in 1 .. 2 * Len(objs) |->
        IF i % 2 = 1 THEN take_write_access(objs[(i + 1) \div 2].id)
        ELSE free_write_access(objs[i \div 2].id)]

\* the guard of the claimed building kept until the end of the pass
change_guards_held(objs, ai_change) ==
    LET b == lookup(objs.buildings, ai_change.new_task.building)
        c == lookup(objs.characters, ai_change.character_id)
        old_task == objs.characters[c].object.current_task
        old == IF old_task.tag = "WorkAtSpot" THEN lookup(objs.buildings, old_task.building)
               ELSE 0
        target == ai_change.new_task.building
    IN IF b = 0 THEN <<>>
       ELSE IF ~claimable(objs.buildings[b].object.workspots[
                              ai_change.new_task.workspot_index + 1].occupation,
                          ai_change.character_id)
       THEN <<take_write_access(target), free_write_access(target)>>
       ELSE <<take_write_access(target)>>
            \o (IF c = 0 THEN <<>>
                ELSE <<take_write_access(ai_change.character_id)>>
                     \o (IF old = 0 THEN <<>>
                         ELSE <<take_write_access(old_task.building),
                                free_write_access(old_task.building)>>)
                     \o <<free_write_access(ai_change.character_id)>>)
            \o <<free_write_access(target)>>

\* the guard of the target building forgotten where the claim fails
change_guards_unreleased(objs, ai_change) ==
    LET b == lookup(objs.buildings, ai_change.new_task.building)
        c == lookup(objs.characters, ai_change.character_id)
        old_task == objs.characters[c].object.current_task
        old == IF old_task.tag = "WorkAtSpot" THEN lookup(objs.buildings, old_task.building)
               ELSE 0
        target == ai_change.new_task.building
    IN IF b = 0 THEN <<>>
       ELSE IF ~claimable(objs.buildings[b].object.workspots[
                              ai_change.new_task.workspot_index + 1].occupation,
                          ai_change.character_id)
       THEN <<take_write_access(target)>>
       ELSE <<take_write_access(target), free_write_access(target)>>
            \o (IF c = 0 THEN <<>>
                ELSE <<take_write_access(ai_change.character_id)>>
                     \o (IF old = 0 THEN <<>>
                         ELSE <<take_write_access(old_task.building),
                                free_write_access(old_task.building)>>)
                     \o <<free_write_access(ai_change.character_id)>>)

\* characters.rs:176-225  the guards of one pass of the loop of apply_ai_changes: the
\* claimed building is dropped where its match arm ends, before the character is taken
change_guards(objs, ai_change) ==
    LET b == lookup(objs.buildings, ai_change.new_task.building)
        c == lookup(objs.characters, ai_change.character_id)
        old_task == objs.characters[c].object.current_task
        old == IF old_task.tag = "WorkAtSpot" THEN lookup(objs.buildings, old_task.building)
               ELSE 0
        target == ai_change.new_task.building
    IN IF b = 0 THEN <<>>
       ELSE <<take_write_access(target), free_write_access(target)>>
            \o (IF \/ c = 0
                    \/ ~claimable(objs.buildings[b].object.workspots[
                                      ai_change.new_task.workspot_index + 1].occupation,
                                  ai_change.character_id)
                THEN <<>>
                ELSE <<take_write_access(ai_change.character_id)>>
                     \o (IF old = 0 THEN <<>>
                         ELSE <<take_write_access(old_task.building),
                                free_write_access(old_task.building)>>)
                     \o <<free_write_access(ai_change.character_id)>>)

\* the guards of Map::apply_ai_changes
RECURSIVE apply_ai_guards(_, _, _)
apply_ai_guards(objs, changes, i) ==
    IF i > Len(changes) THEN <<>>
    ELSE change_guards(objs, changes[i])
         \o apply_ai_guards(apply_ai_change(objs, changes[i]), changes, i + 1)

\* characters.rs:231-288  get_objects_mut::<Character>(): the character written for the
\* whole pass, the building it arrives at written inside
RECURSIVE perform_ai_tick_guards(_, _, _)
perform_ai_tick_guards(world, c, delta) ==
    IF c > Len(world.characters) \/ world.panic THEN <<>>
    ELSE LET character == world.characters[c]
             ticked == tick_character(world, c, delta)
             arrived == character.object.current_path # <<>>
                            /\ ticked.characters[c].object.current_path = <<>>
             task == character.object.current_task
             target == IF arrived /\ task.tag = "WorkAtSpot"
                       THEN lookup(world.buildings, task.building) ELSE 0
         IN <<take_write_access(character.id)>>
            \o (IF target = 0 THEN <<>>
                ELSE <<take_write_access(task.building), free_write_access(task.building)>>)
            \o <<free_write_access(character.id)>>
            \o perform_ai_tick_guards(ticked, c + 1, delta)

(***************************************************************************)
(* Map::simulate.  The calling thread spawns the computations into a rayon *)
(* scope, which returns once all of them have ended, and then applies the  *)
(* buffers one after the other.  The tasks run on pool threads, in any     *)
(* order.                                                                  *)
(* The AI task and the apply steps replay their guards on the SyncState    *)
(* words as they run.                                                      *)
(***************************************************************************)
\* delta_time of a call: 0.05 and 1.0
DeltaTimes == {50, FP}

\* rayon::scope returns as soon as one task has ended
scope_joined_first(states) == \E t \in Tasks : states[t] \in {"done", "panicked"}

\* rayon::scope returns without waiting for the AI task
scope_joined_forked(states) == \A t \in ForkedTasks : states[t] \in {"done", "panicked"}

\* lib.rs:257-261  rayon::scope returns when every spawned task has ended
scope_joined(states) == \A t \in Tasks : states[t] \in {"done", "panicked"}

\* the liquids applied before the air
phase_after_swapped(phase) ==
    CASE phase = "scope" -> "apply_liquid"
      [] phase = "apply_liquid" -> "apply_air"
      [] phase = "apply_air" -> "clock"
      [] phase = "clock" -> "idle"

\* lib.rs:263-266  the statements that follow the scope, in program order
phase_after(phase) ==
    CASE phase = "scope" -> "apply_air"
      [] phase = "apply_air" -> "apply_liquid"
      [] phase = "apply_liquid" -> "clock"
      [] phase = "clock" -> "idle"

\* the AI changes are applied after the liquids and before the clock advances
phase_after_with_ai(phase) ==
    IF phase = "apply_ai" THEN "clock"
    ELSE IF phase_after(phase) = "clock" THEN "apply_ai"
    ELSE phase_after(phase)

sim_frame ==
    UNCHANGED <<next_object_id, tpc, guards, issued, removed>>

\* a step that asks for no guard
no_guards == UNCHANGED <<object_sync, spinning, panicked>>

\* the guards of a step replayed on the words: the step has run to its end, or the
\* thread is left in a spin loop or unwinding with the guards it has got so far
with_guards(events) ==
    LET run == run_guards(object_sync, events, 1)
    IN /\ object_sync' = run.sync
       /\ spinning' = (run.outcome = "spinning")
       /\ panicked' = (run.outcome = "panicked")

guards_returned(events) == run_guards(object_sync, events, 1).outcome = "returned"

\* lib.rs:252-256  the call, up to the spawns
simulate(delta) ==
    /\ Running
    /\ spc = "idle"
    /\ ticks < MaxTicks
    /\ spc' = "scope"
    /\ delta_time' = delta
    /\ task_state' = [t \in Tasks |-> "spawned"]
    /\ air_diff' = AirDiffDefault
    /\ water_diff' = LiquidDiffDefault
    /\ lava_diff' = LiquidDiffDefault
    /\ ai_changes' = <<>>
    /\ pre_tick' = Snapshot
    /\ task_input' = [t \in Tasks |-> <<>>]
    /\ apply_log' = <<>>
    /\ probe' = <<>>
    /\ UNCHANGED <<tiles, current_time, ticks, environment_objects, buildings, characters>>
    /\ no_guards
    /\ sim_frame

\* lib.rs:258-260  a pool thread runs one spawned closure: it reads the map, and the
\* closure assigns the buffer or panics
task_run(t) ==
    /\ Running
    /\ task_state[t] = "spawned"
    /\ task_input' = [task_input EXCEPT ![t] = Snapshot]
    /\ LET air == calculate_air_diff(tiles, delta_time)
           events == IF t = "ai" THEN calculate_ai_guards(buildings, characters, 1) ELSE <<>>
           outcome == run_guards(object_sync, events, 1).outcome
       IN /\ task_state' = [task_state EXCEPT
                               ![t] = IF outcome = "spinning" THEN "spawned"
                                      ELSE IF (t = "air" /\ air.panic) \/ outcome = "panicked"
                                      THEN "panicked"
                                      ELSE "done"]
          /\ air_diff' = IF t = "air" THEN air.diff ELSE air_diff
          /\ object_sync' = run_guards(object_sync, events, 1).sync
          /\ spinning' = (outcome = "spinning")
    /\ water_diff' = IF t = "water" THEN calculate_liquid_diff(tiles, "Water", delta_time)
                     ELSE water_diff
    /\ lava_diff' = IF t = "lava" THEN calculate_liquid_diff(tiles, "Lava", delta_time)
                    ELSE lava_diff
    /\ ai_changes' = IF t = "ai" THEN calculate_ai_changes(tiles, buildings, characters)
                     ELSE ai_changes
    /\ UNCHANGED <<tiles, current_time, spc, delta_time, pre_tick, apply_log, ticks,
                   environment_objects, buildings, characters, panicked>>
    /\ UNCHANGED probe
    /\ sim_frame

\* lib.rs:261  the scope returns, resuming the panic of a task if there was one
scope_return ==
    /\ Running
    /\ spc = "scope"
    /\ scope_joined(task_state)
    /\ IF \E t \in Tasks : task_state[t] = "panicked"
       THEN panicked' = TRUE /\ UNCHANGED spc
       ELSE spc' = phase_after_with_ai("scope") /\ UNCHANGED panicked
    /\ UNCHANGED <<tiles, current_time, delta_time, task_state, air_diff, water_diff, lava_diff,
                   ai_changes, pre_tick, task_input, apply_log, ticks, environment_objects,
                   buildings, characters, object_sync, spinning>>
    /\ UNCHANGED probe
    /\ sim_frame

\* lib.rs:263  self.apply_air_diff(air_diff, delta_time)
step_apply_air_diff ==
    /\ Running
    /\ spc = "apply_air"
    /\ LET objs == get_all_objects(environment_objects, buildings, characters)
       IN /\ with_guards(apply_air_guards(objs))
          /\ IF guards_returned(apply_air_guards(objs))
             THEN /\ tiles' = apply_air_diff(tiles, objs, air_diff, delta_time)
                  /\ apply_log' = Append(apply_log, "air")
                  /\ spc' = phase_after_with_ai("apply_air")
             ELSE UNCHANGED <<tiles, apply_log, spc>>
    /\ UNCHANGED <<current_time, delta_time, task_state, air_diff, water_diff, lava_diff,
                   ai_changes, pre_tick, task_input, ticks, environment_objects, buildings,
                   characters>>
    /\ UNCHANGED probe
    /\ sim_frame

\* lib.rs:264  self.apply_liquid_diff(water_diff, lava_diff)
step_apply_liquid_diff ==
    /\ Running
    /\ spc = "apply_liquid"
    /\ tiles' = apply_liquid_diff(tiles,
                                  get_all_objects(environment_objects, buildings, characters),
                                  water_diff, lava_diff)
    /\ apply_log' = Append(apply_log, "liquid")
    /\ spc' = phase_after_with_ai("apply_liquid")
    /\ UNCHANGED <<current_time, delta_time, task_state, air_diff, water_diff, lava_diff,
                   ai_changes, pre_tick, task_input, ticks, environment_objects, buildings,
                   characters>>
    /\ no_guards
    /\ UNCHANGED probe
    /\ sim_frame

\* self.apply_ai_changes(ai_changes.into_iter())
step_apply_ai_changes ==
    /\ Running
    /\ spc = "apply_ai"
    /\ LET objs == [buildings |-> buildings, characters |-> characters]
           result == apply_ai_changes(objs, ai_changes, 1)
       IN /\ with_guards(apply_ai_guards(objs, ai_changes, 1))
          /\ IF guards_returned(apply_ai_guards(objs, ai_changes, 1))
             THEN /\ buildings' = result.buildings
                  /\ characters' = result.characters
                  /\ apply_log' = Append(apply_log, "ai")
                  /\ spc' = phase_after_with_ai("apply_ai")
             ELSE UNCHANGED <<buildings, characters, apply_log, spc>>
    /\ UNCHANGED <<tiles, current_time, delta_time, task_state, air_diff, water_diff, lava_diff,
                   ai_changes, pre_tick, task_input, ticks, environment_objects>>
    /\ UNCHANGED probe
    /\ sim_frame

\* lib.rs:266  self.current_time += delta_time as f64, and the call returns
step_advance_clock ==
    /\ Running
    /\ spc = "clock"
    /\ current_time' = current_time + delta_time
    /\ apply_log' = Append(apply_log, "clock")
    /\ spc' = phase_after_with_ai("clock")
    /\ ticks' = ticks + 1
    /\ UNCHANGED <<tiles, delta_time, task_state, air_diff, water_diff, lava_diff, ai_changes,
                   pre_tick, task_input, environment_objects, buildings, characters>>
    /\ no_guards
    /\ UNCHANGED probe
    /\ sim_frame

\* the tiles a map is set up with before the first tick
TilePalette ==
    {TileDefault,
     Wall(0),
     Ground(0, AirData(0, 0, 0), LiquidNone),
     Ground(0, AirData(0, 0, FP), LiquidNone),
     Ground(0, AirDefault, Water(1500)),
     Ground(0, AirDefault, Lava(FP))}

Ventilator(location, facing) ==
    [location |-> location, facing |-> facing,
     workspots |-> <<[location |-> <<FP \div 2, FP \div 2>>, occupation |-> Open],
                     [location |-> <<-(FP \div 2), FP \div 2>>, occupation |-> Open]>>]

\* Character::new
Character(location) ==
    [location |-> location, health |-> FP, work_goals_order |-> <<"WorkAtVentilation">>,
     current_goal |-> CharacterGoalIdle, current_task |-> CharacterTaskIdle,
     current_path |-> <<>>]

\* the objects pushed before the first tick, per collection in push order
ObjectScenarios ==
    {[env |-> <<>>, blds |-> <<>>, chars |-> <<>>],
     [env |-> <<[type |-> "AirPusher", x |-> 0, y |-> 0, direction |-> "East",
                 amount |-> 2 * FP]>>,
      blds |-> <<>>, chars |-> <<>>],
     [env |-> <<[type |-> "AirLeveler", x |-> 0, y |-> 0,
                 nitrogen |-> 790, oxygen |-> 210, fumes |-> 0],
                [type |-> "OxygenUser", x |-> 1, y |-> 0, change_per_sec |-> 100],
                [type |-> "LiquidLeveler", x |-> 0, y |-> 1, target |-> Water(FP)]>>,
      blds |-> <<>>, chars |-> <<>>],
     [env |-> <<>>,
      blds |-> <<Ventilator(<<1, 1>>, "North")>>,
      chars |-> <<Character(<<FP \div 2, FP \div 2>>), Character(<<FP + FP \div 2, FP \div 2>>)>>]}

\* Object::new for the objects of one collection, ids counted from `first`
WithIds(objects, first) == [i \in DOMAIN objects |-> [id |-> first + i - 1, object |-> objects[i]]]

\* the grids of a map without objects: tile 0,0 with or without air, one other tile replaced
BareGrids ==
    {[c \in Coords |-> IF c = at THEN other ELSE IF c = <<0, 0>> THEN first ELSE TileDefault] :
        first \in {TileDefault, Ground(0, AirData(0, 0, 0), LiquidNone)},
        other \in TilePalette,
        at \in Coords \ {<<0, 0>>}}

\* the grids of a map with objects: the tile in the far corner replaced
FurnishedGrids ==
    {[c \in Coords |-> IF c = <<Width - 1, Height - 1>> THEN other ELSE TileDefault] :
        other \in TilePalette}

\* a basin between walls: full water on a ledge beside nearly full water below it
TerracedGrids ==
    {[c \in Coords |-> IF c = <<0, 0>> THEN Ground(FP, AirDefault, Water(MAX_LEVEL))
                       ELSE IF c = <<1, 1>> THEN Ground(0, AirDefault, Water(MAX_LEVEL - 50))
                       ELSE Wall(0)]}

\* Map::new_default, some tiles replaced, the objects of one scenario pushed
InitSim ==
    /\ \E scenario \in ObjectScenarios :
          /\ environment_objects = WithIds(scenario.env, 0)
          /\ buildings = WithIds(scenario.blds, Len(scenario.env))
          /\ characters = WithIds(scenario.chars, Len(scenario.env) + Len(scenario.blds))
          /\ next_object_id = Len(scenario.env) + Len(scenario.blds) + Len(scenario.chars)
    /\ object_sync = [i \in 1 .. next_object_id |-> [id |-> i - 1, state |-> 0]]
    /\ issued = [i \in 1 .. next_object_id |-> i - 1]
    /\ tpc = [t \in Threads |-> "idle"]
    /\ guards = <<>>
    /\ spinning = FALSE
    /\ panicked = FALSE
    /\ removed = {}
    /\ tiles \in IF next_object_id = 0 THEN BareGrids \cup TerracedGrids ELSE FurnishedGrids
    /\ current_time = 0
    /\ spc = "idle"
    /\ delta_time = 0
    /\ task_state = [t \in Tasks |-> "idle"]
    /\ air_diff = AirDiffDefault
    /\ water_diff = LiquidDiffDefault
    /\ lava_diff = LiquidDiffDefault
    /\ ai_changes = <<>>
    /\ pre_tick = Snapshot
    /\ task_input = [t \in Tasks |-> <<>>]
    /\ apply_log = <<>>
    /\ ticks = 0
    /\ probe = <<>>

NextSim ==
    \/ \E delta \in DeltaTimes : simulate(delta)
    \/ \E t \in Tasks : task_run(t)
    \/ scope_return
    \/ step_apply_air_diff
    \/ step_apply_liquid_diff
    \/ step_apply_ai_changes
    \/ step_advance_clock

SpecSim == InitSim /\ [][NextSim]_vars

ApplyPhases == {"apply_air", "apply_liquid", "apply_ai", "clock"}

\* C7: no apply step of simulate starts before every forked computation (air, water,
\* lava, AI) has finished, and so what a computation has read is the tiles and objects
\* as they were when the tick began.
C7_ApplyAfterJoin ==
    /\ (spc \in ApplyPhases \/ apply_log # <<>>) => \A t \in Tasks : task_state[t] = "done"
    /\ \A t \in Tasks : task_state[t] \in {"done", "panicked"} => task_input[t] = pre_tick

\* the air has been applied and has changed the grid; every task ran on the pre-tick state
C7_Witness ==
    /\ spc = "apply_liquid"
    /\ apply_log = <<"air">>
    /\ tiles # pre_tick.tiles
    /\ \A t \in Tasks : task_state[t] = "done" /\ task_input[t] = pre_tick

PhaseOrder == <<"air", "liquid", "ai", "clock">>

AirOf(tls) == [c \in Coords |-> IF is_ground(tls[c]) THEN tls[c].tile_type.air ELSE <<>>]
LiquidsOf(tls) ==
    [c \in Coords |-> <<tls[c].ground_level,
                        IF is_ground(tls[c]) THEN tls[c].tile_type.liquids ELSE <<>> >>]

\* C8: within one simulate call the mutations come in the fixed order air, liquids, AI
\* changes, clock: the steps taken so far are always a prefix of that order, the air of
\* the grid changes only in the first step, liquids and ground levels only in the
\* second, buildings and characters only in the third, and the clock only in the last.
C8_FixedOrder ==
    [][/\ apply_log' = SubSeq(PhaseOrder, 1, Len(apply_log'))
       /\ AirOf(tiles') # AirOf(tiles) => apply_log' = <<"air">>
       /\ LiquidsOf(tiles') # LiquidsOf(tiles) => apply_log' = <<"air", "liquid">>
       /\ (buildings' # buildings \/ characters' # characters)
              => apply_log' = <<"air", "liquid", "ai">>
       /\ current_time' # current_time => apply_log' = PhaseOrder]_vars

\* a whole tick in which every phase changed something
C8_Witness ==
    /\ spc = "idle"
    /\ apply_log = PhaseOrder
    /\ AirOf(tiles) # AirOf(pre_tick.tiles)
    /\ LiquidsOf(tiles) # LiquidsOf(pre_tick.tiles)
    /\ buildings # pre_tick.buildings
    /\ characters # pre_tick.characters
    /\ current_time > 0

RECURSIVE TotalAirFrom(_, _)
TotalAirFrom(tls, i) ==
    IF i > Width * Height THEN 0
    ELSE FAdd(IF is_ground(tls[all_tile_coords[i]])
              THEN AirSum(tls[all_tile_coords[i]].tile_type.air) ELSE 0,
              TotalAirFrom(tls, i + 1))

\* nitrogen + oxygen + fumes summed over the ground tiles
TotalAir(tls) == TotalAirFrom(tls, 1)

NonNegativeAir(tls) ==
    \A c \in Coords : is_ground(tls[c]) =>
        /\ FGe(tls[c].tile_type.air.nitrogen, 0)
        /\ FGe(tls[c].tile_type.air.oxygen, 0)
        /\ FGe(tls[c].tile_type.air.fumes, 0)

\* C9: on a map without objects, a simulate call that started from non-negative air
\* leaves the air summed over all ground tiles as it was before the call.
C9_AirMassConserved ==
    (next_object_id = 0 /\ spc = "idle" /\ ticks > 0 /\ NonNegativeAir(pre_tick.tiles))
        => TotalAir(tiles) = TotalAir(pre_tick.tiles)

\* C10: after every simulate call every air component of every ground tile is >= 0
\* (the effectors of every object set up here have non-negative parameters).
C10_AirNonNegative ==
    (spc = "idle" /\ ticks > 0) => NonNegativeAir(tiles)

LevelsBounded(tls) ==
    \A c \in Coords : is_ground(tls[c]) =>
        ~FGt(get_level(tls[c].tile_type.liquids, "AnyLiquid"), MAX_LEVEL)

LevelerTargetsBounded ==
    \A i \in DOMAIN environment_objects :
        environment_objects[i].object.type = "LiquidLeveler"
            => ~FGt(get_level(environment_objects[i].object.target, "AnyLiquid"), MAX_LEVEL)

\* C12: a simulate call that starts with every liquid level <= MAX_LEVEL, the targets
\* of all liquid levelers <= MAX_LEVEL, ends with every liquid level <= MAX_LEVEL (and
\* so does any number of calls).
C12_LevelsBounded ==
    (spc = "idle" /\ ticks > 0 /\ LevelsBounded(pre_tick.tiles) /\ LevelerTargetsBounded)
        => LevelsBounded(tiles)

(***************************************************************************)
(* Map::neighbour_tile_coords on grids of every size up to MaxSide: each   *)
(* behaviour of SpecNeighbours is one call.                                *)
(***************************************************************************)
\* the longest side of the grids neighbour_tile_coords is called on
MaxSide == 10

InitNeighbours ==
    /\ ObjectsNew
    /\ MapNew
    /\ \E WIDTH \in 1 .. MaxSide, HEIGHT \in 1 .. MaxSide :
          \E x \in 0 .. WIDTH - 1, y \in 0 .. HEIGHT - 1 :
              probe = [WIDTH |-> WIDTH, HEIGHT |-> HEIGHT, x |-> x, y |-> y,
                       returned |-> FALSE, neighbours |-> <<>>]

call_neighbour_tile_coords ==
    /\ ~probe.returned
    /\ probe' = [probe EXCEPT !.returned = TRUE,
                              !.neighbours = neighbour_tile_coords_of(probe.WIDTH, probe.HEIGHT,
                                                                      probe.x, probe.y)]
    /\ UNCHANGED <<reg_vars, tpc, guards, spinning, panicked, issued, removed, tiles,
                   current_time, spc, delta_time, task_state, air_diff, water_diff, lava_diff,
                   ai_changes, pre_tick, task_input, apply_log, ticks>>

NextNeighbours == call_neighbour_tile_coords

SpecNeighbours == InitNeighbours /\ [][NextNeighbours]_vars

Distance(a, b) == IF a > b THEN a - b ELSE b - a

\* the tiles of the grid next to x,y, the tile itself left out
Adjacent(WIDTH, HEIGHT, x, y) ==
    {c \in (0 .. WIDTH - 1) \X (0 .. HEIGHT - 1) :
        c # <<x, y>> /\ Distance(c[1], x) <= 1 /\ Distance(c[2], y) <= 1}

\* C14: neighbour_tile_coords(x, y) yields exactly the tiles of the grid other than
\* (x, y) that are at most 1 away in x and in y, each once: 3 at a corner and 8 inside
\* of a 10 x 10 grid, (0,0) and (2,0) for (1,0) of a 10 x 1 grid; and a is among the
\* neighbours of b exactly when b is among the neighbours of a.
C14_Neighbours ==
    probe.returned =>
        LET WIDTH == probe.WIDTH
            HEIGHT == probe.HEIGHT
            here == <<probe.x, probe.y>>
        IN /\ Range(probe.neighbours) = Adjacent(WIDTH, HEIGHT, probe.x, probe.y)
           /\ Len(probe.neighbours) = Cardinality(Range(probe.neighbours))
           /\ (WIDTH = 10 /\ HEIGHT = 10 /\ here = <<0, 0>>)
                  => Range(probe.neighbours) = {<<0, 1>>, <<1, 1>>, <<1, 0>>}
           /\ (WIDTH = 10 /\ HEIGHT = 10 /\ here = <<5, 5>>) => Len(probe.neighbours) = 8
           /\ (WIDTH = 10 /\ HEIGHT = 1 /\ here = <<1, 0>>)
                  => probe.neighbours = <<<<0, 0>>, <<2, 0>>>>
           /\ \A other \in (0 .. WIDTH - 1) \X (0 .. HEIGHT - 1) :
                  other \in Range(probe.neighbours)
                      <=> here \in Range(neighbour_tile_coords_of(WIDTH, HEIGHT,
                                                                  other[1], other[2]))

\* the call on tile (1,0) of a 10 x 1 grid has returned its two neighbours
C14_Witness ==
    /\ probe.returned
    /\ probe.WIDTH = 10 /\ probe.HEIGHT = 1 /\ probe.x = 1 /\ probe.y = 0
    /\ Len(probe.neighbours) = 2

(***************************************************************************)
(* The apply steps on buffers of any content.  SpecApply starts where the  *)
(* scope of simulate has returned: the water and lava buffers hold any     *)
(* finite deltas for one tile, the AI changes are those computed from the  *)
(* objects, and the four apply steps follow.                               *)
(***************************************************************************)
\* the tile the buffers of SpecApply act on
Probed == <<0, 0>>

\* liquid states and grounds of the probed tile
ProbedTiles ==
    {Wall(0)} \cup
    {Ground(0, AirDefault, liquids) :
        liquids \in {LiquidNone, Water(500), Water(MAX_LEVEL), Lava(500)}}

\* deltas a liquid buffer holds for the probed tile
LiquidChanges == {-1000, 0, 300, 500, 2000}

\* Vec<WorkGoal> a character is made with
GoalOrders == {<<"WorkAtVentilation">>, <<"WorkAtVentilation", "WorkAtVentilation">>}

\* a ventilator that was pushed first and is worked by character 2, an air leveler
\* on its tile and a liquid leveler, pushed after it
WorkedVentilator ==
    [env |-> <<[id |-> 1, object |-> [type |-> "AirLeveler", x |-> 0, y |-> 1,
                                       nitrogen |-> 790, oxygen |-> 210, fumes |-> 0]],
               [id |-> 3, object |-> [type |-> "LiquidLeveler", x |-> 1, y |-> 1,
                                       target |-> Water(FP)]]>>,
     blds |-> <<[id |-> 0, object |-> [Ventilator(<<0, 1>>, "North") EXCEPT
                                          !.workspots[1].occupation = Working(2)]]>>,
     chars |-> <<[id |-> 2, object |-> [Character(<<FP \div 2, FP + FP \div 2>>) EXCEPT
                                           !.current_goal = CharacterGoalWork("WorkAtVentilation"),
                                           !.current_task = WorkAtSpot(0, 0)]]>>]

\* a ventilator and two idle characters, both closest to its second workspot
Contenders(first_order, second_order) ==
    [env |-> <<>>,
     blds |-> <<[id |-> 0, object |-> Ventilator(<<1, 0>>, "North")]>>,
     chars |-> <<[id |-> 1, object |-> [Character(<<FP \div 2, FP \div 2>>) EXCEPT
                                           !.work_goals_order = first_order]],
                 [id |-> 2, object |-> [Character(<<FP \div 2, FP + FP \div 2>>) EXCEPT
                                           !.work_goals_order = second_order]]>>]

ApplyScenarios ==
    {[env |-> <<>>, blds |-> <<>>, chars |-> <<>>], WorkedVentilator}
        \cup {Contenders(first_order, second_order) :
                 first_order \in GoalOrders, second_order \in GoalOrders}

InitApply ==
    /\ \E scenario \in ApplyScenarios :
          /\ environment_objects = scenario.env
          /\ buildings = scenario.blds
          /\ characters = scenario.chars
          /\ next_object_id = Len(scenario.env) + Len(scenario.blds) + Len(scenario.chars)
    /\ object_sync = [i \in 1 .. next_object_id |-> [id |-> i - 1, state |-> 0]]
    /\ issued = [i \in 1 .. next_object_id |-> i - 1]
    /\ tpc = [t \in Threads |-> "idle"]
    /\ guards = <<>>
    /\ spinning = FALSE
    /\ panicked = FALSE
    /\ removed = {}
    /\ \E tile \in ProbedTiles : tiles = [c \in Coords |-> IF c = Probed THEN tile ELSE TileDefault]
    /\ current_time = 0
    /\ spc = "apply_air"
    /\ delta_time \in DeltaTimes
    /\ task_state = [t \in Tasks |-> "done"]
    /\ air_diff = AirDiffDefault
    /\ \E change \in LiquidChanges : water_diff = [LiquidDiffDefault EXCEPT ![Probed] = change]
    /\ \E change \in LiquidChanges : lava_diff = [LiquidDiffDefault EXCEPT ![Probed] = change]
    /\ ai_changes = calculate_ai_changes(tiles, buildings, characters)
    /\ pre_tick = Snapshot
    /\ task_input = [t \in Tasks |-> Snapshot]
    /\ apply_log = <<>>
    /\ ticks = 0
    /\ probe = <<>>

NextApply ==
    \/ step_apply_air_diff
    \/ step_apply_liquid_diff
    \/ step_apply_ai_changes
    \/ step_advance_clock

SpecApply == InitApply /\ [][NextApply]_vars

\* the liquid step has just run
LiquidApplied == spc = "apply_ai" /\ apply_log = <<"air", "liquid">>

LevelerTargetsNonNegative ==
    \A i \in DOMAIN environment_objects :
        environment_objects[i].object.type = "LiquidLeveler"
            => \/ environment_objects[i].object.target = LiquidNone
               \/ FGe(environment_objects[i].object.target.level, 0)

\* C11: after apply_liquid_diff, whatever the water and lava buffers held, every ground
\* tile holds no liquid, or water of a level >= 0, or lava of a level >= 0 (the
\* liquid levelers having targets of non-negative level).
C11_LiquidNonNegative ==
    (LiquidApplied /\ LevelerTargetsNonNegative) =>
        \A c \in Coords : is_ground(tiles[c]) =>
            \/ tiles[c].tile_type.liquids = LiquidNone
            \/ /\ tiles[c].tile_type.liquids.tag \in {"Water", "Lava"}
               /\ FGe(tiles[c].tile_type.liquids.level, 0)

\* the buffer took more water from the probed tile than it held, and a leveler acted
C11_Witness ==
    /\ LiquidApplied
    /\ is_ground(pre_tick.tiles[Probed])
    /\ pre_tick.tiles[Probed].tile_type.liquids = Water(500)
    /\ water_diff[Probed] = -1000
    /\ lava_diff[Probed] = 300
    /\ tiles[Probed].tile_type.liquids = Lava(300)
    /\ tiles[<<1, 1>>].tile_type.liquids = Water(FP)

\* the levels of the probed tile after the deltas, as apply_liquid_diff computes them
ProbedWater == new_level(pre_tick.tiles[Probed].tile_type.liquids, "Water", water_diff[Probed])
ProbedLava == new_level(pre_tick.tiles[Probed].tile_type.liquids, "Lava", lava_diff[Probed])

AirApplied == spc = "apply_liquid" /\ apply_log = <<"air">>

KindRank(kind) ==
    CASE kind = "EnvironmentObject" -> 1 [] kind = "Building" -> 2 [] kind = "Character" -> 3

\* every object of the map, in no order that matters
AllObjects ==
    Tagged("Character", characters) \o Tagged("Building", buildings)
        \o Tagged("EnvironmentObject", environment_objects)

InIdOrder(objs) == SortSeq(objs, LAMBDA a, b : a.id < b.id)

InCollectionOrder(objs) ==
    SortSeq(objs, LAMBDA a, b : \/ KindRank(a.kind) < KindRank(b.kind)
                                \/ KindRank(a.kind) = KindRank(b.kind) /\ a.id < b.id)

\* the grid apply_air_diff leaves when the loop over the objects visits them as ordered
AirAppliedInOrder(objs) ==
    AirEffectors(add_air_diff(pre_tick.tiles, air_diff), objs, 1, delta_time)

\* C15 as stated: in the effector phase the objects act in ascending object-id order,
\* whatever their kinds: the grid after apply_air_diff is the one that order gives.
C15_IdOrder == AirApplied => tiles = AirAppliedInOrder(InIdOrder(AllObjects))

\* C15 amended: the objects act collection by collection (environment objects, then
\* buildings, then characters), in ascending object-id order within each collection.
C15_CollectionOrder == AirApplied => tiles = AirAppliedInOrder(InCollectionOrder(AllObjects))

\* a ventilator with a smaller id than the air leveler on its tile has pushed air after
\* the leveler acted: the grid is not the one ascending id order gives
C15_Witness ==
    /\ AirApplied
    /\ \E b \in DOMAIN buildings, e \in DOMAIN environment_objects :
          /\ buildings[b].id < environment_objects[e].id
          /\ environment_objects[e].object.type = "AirLeveler"
          /\ <<environment_objects[e].object.x, environment_objects[e].object.y>>
                 = buildings[b].object.location
    /\ tiles # AirAppliedInOrder(InIdOrder(AllObjects))
    /\ tiles # pre_tick.tiles

\* the AI changes have just been applied
AiApplied == spc = "clock" /\ apply_log = <<"air", "liquid", "ai">>

\* the changes of the buffer that assign workspot `index` of building `building`
ChangesFor(building, index) ==
    SelectSeq(ai_changes, LAMBDA change : change.new_task = WorkAtSpot(building, index))

CharacterOf(chars, id) == chars[CHOOSE c \in DOMAIN chars : chars[c].id = id].object

\* C16: when the changes of one tick assign one open workspot to two or more
\* characters, after apply_ai_changes the workspot is Claimed by the first of them in
\* the list, that character alone has the new goal, task and path, and every other
\* contender and every other workspot is as it was before.
C16_OneWinner ==
    AiApplied =>
        \A b \in DOMAIN buildings : \A w \in DOMAIN buildings[b].object.workspots :
            LET contending == ChangesFor(buildings[b].id, w - 1)
                contenders == {contending[k].character_id : k \in DOMAIN contending}
            IN (Cardinality(contenders) >= 2
                    /\ is_open(pre_tick.buildings[b].object.workspots[w].occupation))
               => /\ buildings[b].object.workspots[w].occupation
                        = Claimed(contending[1].character_id)
                  /\ CharacterOf(characters, contending[1].character_id) =
                        [CharacterOf(pre_tick.characters, contending[1].character_id) EXCEPT
                            !.current_goal = contending[1].new_goal,
                            !.current_task = contending[1].new_task,
                            !.current_path = contending[1].new_path]
                  /\ \A other \in contenders \ {contending[1].character_id} :
                        CharacterOf(characters, other) = CharacterOf(pre_tick.characters, other)
                  /\ \A v \in DOMAIN buildings[b].object.workspots \ {w} :
                        buildings[b].object.workspots[v]
                            = pre_tick.buildings[b].object.workspots[v]

(***************************************************************************)
(* A map in use: the owner pushes and removes objects, and calls simulate  *)
(* and perform_ai_tick, one call after the other.                          *)
(***************************************************************************)
\* delta_time of a perform_ai_tick call: 0.5, a walk of 0.6
FrameTimes == {FP \div 2}

\* Character::new(location, 1.0, order) a tile away from the second workspot of the
\* ventilator
Walkers ==
    {[Character(<<FP \div 2, FP + FP \div 2>>) EXCEPT !.work_goals_order = order] :
        order \in GoalOrders}

\* Character::new(location, 1.0, order) on the second workspot of the ventilator
Bystanders ==
    {[Character(<<FP \div 2, FP \div 2>>) EXCEPT !.work_goals_order = order] :
        order \in GoalOrders}

\* the last call of the owner, simulate apart: perform_ai_tick with the objects as they
\* were when it was called
TickRecord(delta) ==
    [call |-> "perform_ai_tick", delta_time |-> delta, buildings |-> buildings,
     characters |-> characters]

\* Map::perform_ai_tick
perform_ai_tick(delta) ==
    /\ Running
    /\ spc = "idle"
    /\ guards = <<>>
    /\ LET world == [buildings |-> buildings, characters |-> characters, panic |-> FALSE]
           run == run_guards(object_sync, perform_ai_tick_guards(world, 1, delta), 1)
           result == perform_ai_tick_from(world, 1, delta)
       IN /\ object_sync' = run.sync
          /\ spinning' = (run.outcome = "spinning")
          /\ panicked' = (run.outcome = "panicked" \/ (run.outcome = "returned" /\ result.panic))
          /\ IF run.outcome = "returned"
             THEN buildings' = result.buildings /\ characters' = result.characters
             ELSE UNCHANGED <<buildings, characters>>
    /\ probe' = TickRecord(delta)
    /\ UNCHANGED <<next_object_id, environment_objects, tpc, guards, issued, removed, map_vars>>

\* a map with one ventilator whose air goes off the grid, and one character
InitWorld ==
    /\ environment_objects = <<>>
    /\ buildings = <<[id |-> 0, object |-> Ventilator(<<1, 0>>, "North")]>>
    /\ \E character \in Walkers : characters = <<[id |-> 1, object |-> character]>>
    /\ next_object_id = 2
    /\ object_sync = [i \in 1 .. 2 |-> [id |-> i - 1, state |-> 0]]
    /\ issued = <<0, 1>>
    /\ tpc = [t \in Threads |-> "idle"]
    /\ guards = <<>>
    /\ spinning = FALSE
    /\ panicked = FALSE
    /\ removed = {}
    /\ MapNew
    /\ probe = <<>>

NextWorld ==
    \/ \E character \in Bystanders :
          /\ spc = "idle"
          /\ push_object("Character", character)
          /\ probe' = [call |-> "push_object"]
          /\ UNCHANGED map_vars
    \/ \E kind \in {"Building", "Character"} : \E id \in LiveIds(kind) :
          /\ spc = "idle"
          /\ remove_object(kind, id)
          /\ probe' = [call |-> "remove_object"]
          /\ UNCHANGED map_vars
    \/ simulate(FP)
    \/ \E t \in Tasks : task_run(t)
    \/ scope_return
    \/ step_apply_air_diff
    \/ step_apply_liquid_diff
    \/ step_apply_ai_changes
    \/ step_advance_clock
    \/ \E delta \in FrameTimes : perform_ai_tick(delta)

SpecWorld == InitWorld /\ [][NextWorld]_vars

\* simulate has returned, and the owner has made no call since
SimulateReturned == spc = "idle" /\ Running /\ ticks > 0 /\ probe = <<>>

\* perform_ai_tick has returned, and the owner has made no call since
TickReturned == spc = "idle" /\ Running /\ probe # <<>> /\ probe.call = "perform_ai_tick"

Holder(occupation) == occupation.by

\* C17: after every simulate and every perform_ai_tick call, objects being pushed and
\* removed between the calls, every workspot that is Claimed(c) or Working(c) names a
\* live character c whose current task is WorkAtSpot of that building and that index.
C17_ClaimHasCharacter ==
    (SimulateReturned \/ TickReturned) =>
        \A b \in DOMAIN buildings : \A w \in DOMAIN buildings[b].object.workspots :
            ~is_open(buildings[b].object.workspots[w].occupation)
                => \E c \in DOMAIN characters :
                       /\ characters[c].id = Holder(buildings[b].object.workspots[w].occupation)
                       /\ characters[c].object.current_task = WorkAtSpot(buildings[b].id, w - 1)

\* the character pursues a work goal of its order, or a survive goal
Pursuing(character) ==
    \/ surviving(character)
    \/ \E g \in DOMAIN character.object.work_goals_order :
           character.object.current_goal
               = CharacterGoalWork(character.object.work_goals_order[g])

Names(occupation, id) == ~is_open(occupation) /\ Holder(occupation) = id

\* the apply steps of the running simulate call are over
Applied == spc = "clock" \/ SimulateReturned

\* C18: calculate_ai_changes produces no AiChange for a character whose goal is already
\* Work(g) for a g of its work_goals_order, or Survive(g); and a simulate call leaves the
\* goal, task, path and workspot claim of such a character as they were.
C18_PursuingUntouched ==
    /\ task_state["ai"] = "done" =>
           \A c \in DOMAIN task_input["ai"].characters :
               Pursuing(task_input["ai"].characters[c])
                   => \A k \in DOMAIN ai_changes :
                          ai_changes[k].character_id # task_input["ai"].characters[c].id
    /\ Applied =>
           \A c \in DOMAIN pre_tick.characters :
               Pursuing(pre_tick.characters[c])
                   => /\ c \in DOMAIN characters
                      /\ characters[c] = pre_tick.characters[c]
                      /\ \A b \in DOMAIN buildings :
                             \A w \in DOMAIN buildings[b].object.workspots :
                                 (\/ Names(buildings[b].object.workspots[w].occupation,
                                           pre_tick.characters[c].id)
                                  \/ Names(pre_tick.buildings[b].object.workspots[w].occupation,
                                           pre_tick.characters[c].id))
                                     => buildings[b].object.workspots[w]
                                            = pre_tick.buildings[b].object.workspots[w]

\* a simulate call has applied a change for one character while another one, which held
\* a claim and pursued its goal before the call, was among the characters
C18_Witness ==
    /\ spc = "clock"
    /\ ai_changes # <<>>
    /\ \E c \in DOMAIN pre_tick.characters :
           /\ Pursuing(pre_tick.characters[c])
           /\ \E b \in DOMAIN pre_tick.buildings :
                  \E w \in DOMAIN pre_tick.buildings[b].object.workspots :
                      Names(pre_tick.buildings[b].object.workspots[w].occupation,
                            pre_tick.characters[c].id)

\* the c-th character had a path when perform_ai_tick was called and has none now: it
\* has reached the last point
Arrived(c) ==
    /\ probe.characters[c].object.current_path # <<>>
    /\ characters[c].object.current_path = <<>>

\* the c-th character has the goal and the task it had when perform_ai_tick was called
KeepsGoalAndTask(c) ==
    /\ characters[c].object.current_goal = probe.characters[c].object.current_goal
    /\ characters[c].object.current_task = probe.characters[c].object.current_task

FallsIdle(c) ==
    /\ characters[c].object.current_goal = CharacterGoalIdle
    /\ characters[c].object.current_task = CharacterTaskIdle

\* the occupation of the workspot of a task in a vector of buildings
OccupationAt(blds, task) ==
    blds[lookup(blds, task.building)].object.workspots[task.workspot_index + 1].occupation

\* a character before the c-th one has arrived at the workspot of this task in the same call
ArrivedBefore(c, task) ==
    \E e \in 1 .. c - 1 : Arrived(e) /\ probe.characters[e].object.current_task = task

\* every workspot is as it was when perform_ai_tick was called, or worked by a
\* character that has arrived at it in this call
OnlyArrivalsStartWork ==
    \A b \in DOMAIN buildings : \A w \in DOMAIN buildings[b].object.workspots :
        \/ buildings[b].object.workspots[w] = probe.buildings[b].object.workspots[w]
        \/ \E e \in DOMAIN characters :
               /\ Arrived(e)
               /\ probe.characters[e].object.current_task = WorkAtSpot(buildings[b].id, w - 1)
               /\ buildings[b].object.workspots[w].occupation = Working(characters[e].id)

StatementsLeft ==
    CASE spc = "scope" -> 5
      [] spc = "apply_air" -> 4
      [] spc = "apply_liquid" -> 3
      [] spc = "apply_ai" -> 2
      [] spc = "clock" -> 1
      [] spc = "idle" -> 0

\* what is left to do of the running simulate call: tasks to run and statements
WorkLeft == Cardinality({t \in Tasks : task_state[t] = "spawned"}) + StatementsLeft

\* a pool thread can run a task, or the calling thread can run its next statement
StepReady ==
    \/ \E t \in Tasks : task_state[t] = "spawned"
    \/ spc = "scope" /\ scope_joined(task_state)
    \/ spc \in ApplyPhases

\* C20: every simulate call and every perform_ai_tick call terminates: no thread is
\* left spinning for a lock, which it would be if it asked for an object on which the
\* same call holds a conflicting guard or if two tasks waited for each other; as long
\* as a simulate call runs a step of it is possible, and every step leaves less to do
\* (or unwinds).
C20_CallsTerminate ==
    /\ [](~spinning)
    /\ []((spc # "idle" /\ ~panicked) => StepReady)
    /\ [][(spc # "idle" /\ ~panicked') => WorkLeft' < WorkLeft]_vars

\* apply_ai_changes has returned from a list in which a character, holding a workspot
\* of a building by an earlier change of the list, takes a workspot of that building
\* again: it wrote the building, then the character and, within that, the building
C20_Witness ==
    /\ spc = "clock"
    /\ \E k \in DOMAIN ai_changes : \E j \in 1 .. k - 1 :
           /\ ai_changes[j].character_id = ai_changes[k].character_id
           /\ ai_changes[j].new_task.building = ai_changes[k].new_task.building
    /\ \A i \in DOMAIN object_sync : object_sync[i].state = 0

\* no reader count and no writer flag in any lock word
WordsClear == \A i \in DOMAIN object_sync : object_sync[i].state = 0

\* the change was skipped: its character does not hold the task of the change
Skipped(change) ==
    \E c \in DOMAIN characters :
        /\ characters[c].id = change.character_id
        /\ characters[c].object.current_task # change.new_task

\* C21: every guard taken inside calculate_ai_changes, apply_air_diff, apply_liquid_diff,
\* apply_ai_changes and perform_ai_tick is released on every exit path, the continue
\* branches included: whenever one of them has returned, the lock word of every object
\* is 0.
C21_GuardsReleased == ~spinning => WordsClear

\* apply_ai_changes has returned after it skipped a change whose claim failed
C21_Witness ==
    /\ spc = "clock"
    /\ \E k \in DOMAIN ai_changes : Skipped(ai_changes[k])
    /\ WordsClear

(***************************************************************************)
(* Facing on its own: rotate applied to every triple of facings, and       *)
(* move_coords_in_direction to every tile of every grid up to MaxSide.     *)
(***************************************************************************)
FacingSet == Range(Facings)

InitFacing ==
    /\ ObjectsNew
    /\ MapNew
    /\ probe \in [call : {"rotate"}, a : FacingSet, b : FacingSet, c : FacingSet,
                  returned : {FALSE}, result : {<<>>}]
            \cup UNION {{[call |-> "move_coords_in_direction", WIDTH |-> w, HEIGHT |-> h,
                          facing |-> f, x |-> x, y |-> y, returned |-> FALSE,
                          result |-> <<>>] :
                             f \in FacingSet, x \in 0 .. w - 1, y \in 0 .. h - 1} :
                        w \in 1 .. MaxSide, h \in 1 .. MaxSide}

\* a rotation applied `times` times
RECURSIVE rotate_times(_, _, _)
rotate_times(facing, applied, times) ==
    IF times = 0 THEN facing ELSE rotate_times(rotate(facing, applied), applied, times - 1)

\* a.rotate(b), b.rotate(a), the two ways to apply b and c to a, and a turned East
\* four times
call_rotate ==
    /\ probe.call = "rotate"
    /\ ~probe.returned
    /\ probe' = [probe EXCEPT
                    !.returned = TRUE,
                    !.result = [ab |-> rotate(probe.a, probe.b),
                                ba |-> rotate(probe.b, probe.a),
                                ab_c |-> rotate(rotate(probe.a, probe.b), probe.c),
                                a_bc |-> rotate(probe.a, rotate(probe.b, probe.c)),
                                east4 |-> rotate_times(probe.a, "East", 4)]]
    /\ UNCHANGED <<reg_vars, tpc, guards, spinning, panicked, issued, removed, map_vars>>

\* facing.move_coords_in_direction::<WIDTH, HEIGHT>(x, y) for a tile of the grid
call_move_coords_in_direction ==
    /\ probe.call = "move_coords_in_direction"
    /\ ~probe.returned
    /\ probe' = [probe EXCEPT
                    !.returned = TRUE,
                    !.result = move_coords_in_direction_of(probe.WIDTH, probe.HEIGHT,
                                                           probe.facing, probe.x, probe.y)]
    /\ UNCHANGED <<reg_vars, tpc, guards, spinning, panicked, issued, removed, map_vars>>

NextFacing == call_rotate \/ call_move_coords_in_direction

SpecFacing == InitFacing /\ [][NextFacing]_vars

\* quarter turns clockwise from North
QuarterTurns(facing) ==
    CASE facing = "North" -> 0 [] facing = "East" -> 1 [] facing = "South" -> 2
      [] facing = "West" -> 3

\* C22: Facing::rotate is addition modulo 4 on (North, East, South, West): North is the
\* identity on either side, rotate is commutative and associative, East.rotate(East) is
\* South, West.rotate(East) is North, and four rotations by East give the facing back.
C22_RotateIsAdditionMod4 ==
    (probe.call = "rotate" /\ probe.returned) =>
        /\ QuarterTurns(probe.result.ab) = (QuarterTurns(probe.a) + QuarterTurns(probe.b)) % 4
        /\ probe.a = "North" => probe.result.ab = probe.b
        /\ probe.b = "North" => probe.result.ab = probe.a
        /\ probe.result.ab = probe.result.ba
        /\ probe.result.ab_c = probe.result.a_bc
        /\ (probe.a = "East" /\ probe.b = "East") => probe.result.ab = "South"
        /\ (probe.a = "West" /\ probe.b = "East") => probe.result.ab = "North"
        /\ probe.result.east4 = probe.a

\* West.rotate(East) has been computed: the sum of the discriminants wraps
C22_Witness ==
    /\ probe.call = "rotate"
    /\ probe.returned
    /\ probe.a = "West"
    /\ probe.b = "East"
    /\ probe.result.ab = "North"

\* the offset of one step in a direction
StepOffset(facing) ==
    CASE facing = "North" -> <<0, -1>> [] facing = "East" -> <<1, 0>>
      [] facing = "South" -> <<0, 1>> [] facing = "West" -> <<-1, 0>>

\* C23: for every tile (x, y) of a WIDTH x HEIGHT grid, move_coords_in_direction returns
\* None exactly when the step leaves the grid (North at y = 0, East at x = WIDTH - 1,
\* South at y = HEIGHT - 1, West at x = 0), and otherwise the adjacent coordinate, which
\* is inside the grid.
C23_MoveStaysInGrid ==
    (probe.call = "move_coords_in_direction" /\ probe.returned) =>
        LET leaves == \/ probe.facing = "North" /\ probe.y = 0
                      \/ probe.facing = "East" /\ probe.x = probe.WIDTH - 1
                      \/ probe.facing = "South" /\ probe.y = probe.HEIGHT - 1
                      \/ probe.facing = "West" /\ probe.x = 0
        IN /\ (probe.result = <<>>) <=> leaves
           /\ ~leaves =>
                  /\ probe.result = <<<<probe.x + StepOffset(probe.facing)[1],
                                        probe.y + StepOffset(probe.facing)[2]>>>>
                  /\ probe.result[1][1] \in 0 .. probe.WIDTH - 1
                  /\ probe.result[1][2] \in 0 .. probe.HEIGHT - 1

\* a step East from the last column of a grid wider than one tile has returned None,
\* and so has a step South from the last row
C23_Witness ==
    /\ probe.call = "move_coords_in_direction"
    /\ probe.returned
    /\ probe.WIDTH > 1
    /\ probe.facing = "East"
    /\ probe.x = probe.WIDTH - 1
    /\ probe.result = <<>>

(***************************************************************************)
(* The buffers the forked computations return.                             *)
(***************************************************************************)
\* the values of a buffer added up over the tiles, from the i-th tile on
RECURSIVE BufferSumFrom(_, _)
BufferSumFrom(buffer, i) ==
    IF i > Len(all_tile_coords) THEN 0
    ELSE FAdd(buffer[all_tile_coords[i]], BufferSumFrom(buffer, i + 1))

BufferSum(buffer) == BufferSumFrom(buffer, 1)

\* C24: the buffer calculate_air_diff returns sums to zero over the tiles for each of
\* nitrogen, oxygen and fumes, and so does the buffer calculate_liquid_diff returns for
\* water and for lava, whatever the snapshot.
C24_BuffersSumToZero ==
    /\ task_state["air"] = "done" =>
           /\ BufferSum([c \in Coords |-> air_diff[c].nitrogen]) = 0
           /\ BufferSum([c \in Coords |-> air_diff[c].oxygen]) = 0
           /\ BufferSum([c \in Coords |-> air_diff[c].fumes]) = 0
    /\ task_state["water"] = "done" => BufferSum(water_diff) = 0
    /\ task_state["lava"] = "done" => BufferSum(lava_diff) = 0

(***************************************************************************)
(* simulate as one function of the map and delta_time: the computations    *)
(* one after the other on the map as it was, then the apply steps.         *)
(***************************************************************************)
Sequential(map, delta) ==
    LET objs == get_all_objects(map.environment_objects, map.buildings, map.characters)
        aired == apply_air_diff(map.tiles, objs, calculate_air_diff(map.tiles, delta).diff,
                                delta)
        flowed == apply_liquid_diff(aired, objs,
                                    calculate_liquid_diff(map.tiles, "Water", delta),
                                    calculate_liquid_diff(map.tiles, "Lava", delta))
        assigned == apply_ai_changes([buildings |-> map.buildings,
                                      characters |-> map.characters],
                                     calculate_ai_changes(map.tiles, map.buildings,
                                                          map.characters), 1)
    IN [tiles |-> flowed, environment_objects |-> map.environment_objects,
        buildings |-> assigned.buildings, characters |-> assigned.characters]

\* C26: the state after simulate is a function of the state before it and of delta_time:
\* in whatever order the forked computations run and end, the call returns with the
\* same tiles and objects, and with the clock advanced by delta_time.
C26_ScheduleIndependent ==
    [][(spc = "clock" /\ spc' = "idle")
          => /\ Snapshot' = Sequential(pre_tick, delta_time)
             /\ current_time' = current_time + delta_time]_vars

\* a simulate call has returned that changed air, liquids, buildings and characters
C26_Witness ==
    /\ spc = "idle"
    /\ ticks > 0
    /\ AirOf(tiles) # AirOf(pre_tick.tiles)
    /\ LiquidsOf(tiles) # LiquidsOf(pre_tick.tiles)
    /\ buildings # pre_tick.buildings
    /\ characters # pre_tick.characters
    /\ Snapshot = Sequential(pre_tick, delta_time)


(***************************************************************************)
(* The order of the statements of one pass of apply_ai_changes.            *)
(***************************************************************************)
\* the objects after the first n changes of the buffer
AppliedUpTo(n) ==
    apply_ai_changes([buildings |-> buildings, characters |-> characters],
                     SubSeq(ai_changes, 1, n), 1)

\* the pass for this change gets to the three assignments at its end
Commits(objs, ai_change) ==
    LET b == lookup(objs.buildings, ai_change.new_task.building)
    IN /\ b # 0
       /\ claimable(objs.buildings[b].object.workspots[ai_change.new_task.workspot_index + 1]
                        .occupation, ai_change.character_id)
       /\ lookup(objs.characters, ai_change.character_id) # 0

occupation_of(objs, task) ==
    objs.buildings[lookup(objs.buildings, task.building)]
        .object.workspots[task.workspot_index + 1].occupation

\* C28: in every pass of apply_ai_changes that commits a change, the release of the
\* character's previous workspot comes before the claim of the new one, so that the claim
\* is the last thing done to a workspot: when the goal, task and path are committed the
\* new workspot is Claimed by the character.
C28_ReleasedBeforeClaimed ==
    [][(spc = "apply_ai" /\ spc' = "clock") =>
          \A n \in DOMAIN ai_changes :
              Commits(AppliedUpTo(n - 1), ai_changes[n]) =>
                  LET after == AppliedUpTo(n)
                      c == lookup(after.characters, ai_changes[n].character_id)
                  IN /\ after.characters[c].object.current_task = ai_changes[n].new_task
                     /\ occupation_of(after, ai_changes[n].new_task)
                            = Claimed(ai_changes[n].character_id)]_vars


(***************************************************************************)
(* calculate_ai_changes on its own: two ventilators whose workspots are    *)
(* Open, Claimed or Working, one idle character, and a tile that may not   *)
(* be walked.                                                              *)
(***************************************************************************)
Occupations == {Open, Claimed(7), Working(7)}

Occupied(building, first, second) ==
    [building EXCEPT !.workspots[1].occupation = first, !.workspots[2].occupation = second]

\* tiles no path may start or end on, and a tile of shallow water that may be walked
Obstacles == {Wall(0), Ground(0, AirDefault, Lava(500)), Ground(0, AirDefault, Water(500))}

InitChoice ==
    /\ environment_objects = <<>>
    /\ \E near \in {"North", "East", "West"}, far \in FacingSet :
       \E a \in Occupations, b \in Occupations, c \in Occupations, d \in Occupations :
          buildings = <<[id |-> 0, object |-> Occupied(Ventilator(<<1, 0>>, near), a, b)],
                        [id |-> 1, object |-> Occupied(Ventilator(<<0, 0>>, far), c, d)]>>
    /\ \E location \in {<<FP \div 2, FP \div 2>>, <<FP \div 2, FP + FP \div 2>>} :
       \E order \in GoalOrders :
          characters = <<[id |-> 2, object |-> [Character(location) EXCEPT
                                                   !.work_goals_order = order]]>>
    /\ next_object_id = 3
    /\ object_sync = [i \in 1 .. 3 |-> [id |-> i - 1, state |-> 0]]
    /\ issued = <<0, 1, 2>>
    /\ tpc = [t \in Threads |-> "idle"]
    /\ guards = <<>>
    /\ spinning = FALSE
    /\ panicked = FALSE
    /\ removed = {}
    /\ \E at \in {<<0, 0>>, <<1, 0>>}, tile \in Obstacles \cup {TileDefault} :
          tiles = [c \in Coords |-> IF c = at THEN tile ELSE TileDefault]
    /\ current_time = 0
    /\ spc = "idle"
    /\ delta_time = 0
    /\ task_state = [t \in Tasks |-> "idle"]
    /\ air_diff = AirDiffDefault
    /\ water_diff = LiquidDiffDefault
    /\ lava_diff = LiquidDiffDefault
    /\ ai_changes = <<>>
    /\ pre_tick = Snapshot
    /\ task_input = [t \in Tasks |-> <<>>]
    /\ apply_log = <<>>
    /\ ticks = 0
    /\ probe = [call |-> "calculate_ai_changes", returned |-> FALSE, guards |-> <<>>]

\* Map::calculate_ai_changes(&self): the changes are returned, the guards it took and
\* dropped are kept in the probe
call_calculate_ai_changes ==
    /\ probe.call = "calculate_ai_changes"
    /\ ~probe.returned
    /\ guards_returned(calculate_ai_guards(buildings, characters, 1))
    /\ ai_changes' = calculate_ai_changes(tiles, buildings, characters)
    /\ with_guards(calculate_ai_guards(buildings, characters, 1))
    /\ probe' = [probe EXCEPT !.returned = TRUE,
                              !.guards = calculate_ai_guards(buildings, characters, 1)]
    /\ UNCHANGED <<tiles, current_time, spc, delta_time, task_state, air_diff, water_diff,
                   lava_diff, pre_tick, task_input, apply_log, ticks, environment_objects,
                   buildings, characters>>
    /\ sim_frame

NextChoice == call_calculate_ai_changes

SpecChoice == InitChoice /\ [][NextChoice]_vars

ChoiceReturned == probe # <<>> /\ probe.call = "calculate_ai_changes" /\ probe.returned

\* the workspots (place in the building vector, workspot index) the character may take
Qualifying(from) ==
    {spot \in (DOMAIN buildings) \X {0, 1} :
        /\ buildings[spot[1]].object.workspots[spot[2] + 1].occupation = Open
        /\ walkable(tiles, from)
        /\ walkable(tiles, workspots(buildings[spot[1]].object)[spot[2] + 1].location)}

PathLength(from, spot) ==
    distance(from, workspots(buildings[spot[1]].object)[spot[2] + 1].location)

Before(spot, other) ==
    \/ buildings[spot[1]].id < buildings[other[1]].id
    \/ buildings[spot[1]].id = buildings[other[1]].id /\ spot[2] < other[2]

\* C29: the workspot of every change calculate_ai_changes returns for an idle character
\* is an Open workspot of a ventilator with a valid path from the character, none of
\* those has a shorter path, and none of the same length comes before it in (building
\* id, workspot index) order; there is one change per listed work goal, and none when
\* no workspot qualifies.
C29_ClosestOpenWorkspot ==
    ChoiceReturned =>
        LET character == characters[1]
            from == character.object.location
        IN /\ Len(ai_changes) = IF Qualifying(from) = {} THEN 0
                                ELSE Len(character.object.work_goals_order)
           /\ \A n \in DOMAIN ai_changes :
                 /\ ai_changes[n].character_id = character.id
                 /\ ai_changes[n].new_goal = CharacterGoalWork("WorkAtVentilation")
                 /\ \E spot \in Qualifying(from) :
                       /\ ai_changes[n].new_task
                              = WorkAtSpot(buildings[spot[1]].id, spot[2])
                       /\ ai_changes[n].new_path
                              = <<from, workspots(buildings[spot[1]].object)[spot[2] + 1]
                                            .location>>
                       /\ \A other \in Qualifying(from) :
                             /\ PathLength(from, spot) <= PathLength(from, other)
                             /\ PathLength(from, spot) = PathLength(from, other)
                                    => (other = spot \/ Before(spot, other))

\* two Open workspots of different buildings are equally close and closer than a third
\* Open one, the other workspot of the first building is not Open: the first of the two
\* is chosen
C29_Witness ==
    /\ ChoiceReturned
    /\ ai_changes # <<>>
    /\ LET from == characters[1].object.location
       IN /\ Cardinality(Qualifying(from)) = 3
          /\ ai_changes[1].new_task = WorkAtSpot(0, 1)
          /\ <<2, 0>> \in Qualifying(from)
          /\ PathLength(from, <<2, 0>>) = PathLength(from, <<1, 1>>)
          /\ \E other \in Qualifying(from) :
                PathLength(from, other) > PathLength(from, <<1, 1>>)
          /\ buildings[1].object.workspots[1].occupation # Open


\* C30: calculate_ai_changes changes no object and no tile: every guard it takes is a
\* read guard, and the tiles, the goal, task and path of every character and the
\* occupation of every workspot are the same when it returns as when it was called.
C30_ReadOnly ==
    /\ [](ChoiceReturned =>
            /\ \A n \in DOMAIN probe.guards :
                  probe.guards[n].op \in {"take_read", "free_read"}
            /\ WordsClear)
    /\ [][(~probe.returned /\ probe'.returned) =>
             /\ tiles' = tiles
             /\ environment_objects' = environment_objects
             /\ buildings' = buildings
             /\ characters' = characters]_vars

\* the call returned changes for a character that listed its goal twice, after it read
\* the character and, once per goal, both buildings, one of them with a Claimed workspot
C30_Witness ==
    /\ ChoiceReturned
    /\ Len(ai_changes) = 2
    /\ Len(probe.guards) = 10
    /\ characters[1].object.current_task = CharacterTaskIdle
    /\ buildings[1].object.workspots[1].occupation = Claimed(7)


(***************************************************************************)
(* The apply steps of one tick on a map with the effectors of one kind:    *)
(* an oxygen user, an air pusher of every direction, or two liquid         *)
(* levelers, on tiles that are ground or wall.                             *)
(***************************************************************************)
EffectorScenarios ==
    {<<[type |-> "OxygenUser", x |-> 0, y |-> 0, change_per_sec |-> rate]>> :
        rate \in {100, 300}}
    \cup {<<[type |-> "AirPusher", x |-> at[1], y |-> at[2], direction |-> direction,
            amount |-> amount]>> :
             at \in {<<0, 0>>, <<1, 0>>}, direction \in Range(Facings), amount \in {250, 2 * FP}}
    \cup {<<[type |-> "LiquidLeveler", x |-> 0, y |-> 0, target |-> first],
           [type |-> "LiquidLeveler", x |-> at[1], y |-> at[2], target |-> second]>> :
             first \in {Water(FP)}, second \in {LiquidNone, Lava(300)},
             at \in {<<0, 0>>, <<1, 0>>}}

\* the tile the effectors stand on
EffectTiles ==
    {Wall(0), TileDefault,
     Ground(0, AirData(790, 40, 60), Water(500)),
     Ground(200, AirDefault, Lava(500))}

InitEffect ==
    /\ \E env \in EffectorScenarios : environment_objects = WithIds(env, 0)
    /\ buildings = <<>>
    /\ characters = <<>>
    /\ next_object_id = Len(environment_objects)
    /\ object_sync = [i \in 1 .. next_object_id |-> [id |-> i - 1, state |-> 0]]
    /\ issued = [i \in 1 .. next_object_id |-> i - 1]
    /\ tpc = [t \in Threads |-> "idle"]
    /\ guards = <<>>
    /\ spinning = FALSE
    /\ panicked = FALSE
    /\ removed = {}
    /\ \E first \in EffectTiles, second \in {TileDefault, Wall(0)} :
          tiles = [c \in Coords |-> IF c = <<0, 0>> THEN first
                                    ELSE IF c = <<1, 0>> THEN second ELSE TileDefault]
    /\ current_time = 0
    /\ spc = "apply_air"
    /\ delta_time \in DeltaTimes
    /\ task_state = [t \in Tasks |-> "done"]
    /\ \E change \in {0, -30} :
          air_diff = [AirDiffDefault EXCEPT ![Probed] = AirData(0, change, 0)]
    /\ \E change \in LiquidChanges : water_diff = [LiquidDiffDefault EXCEPT ![Probed] = change]
    /\ \E change \in {0, 500} : lava_diff = [LiquidDiffDefault EXCEPT ![Probed] = change]
    /\ ai_changes = <<>>
    /\ pre_tick = Snapshot
    /\ task_input = [t \in Tasks |-> Snapshot]
    /\ apply_log = <<>>
    /\ ticks = 0
    /\ probe = <<>>

SpecEffect == InitEffect /\ [][NextApply]_vars

\* the grid after the first loop of apply_air_diff, before the objects act
AirAdded == add_air_diff(pre_tick.tiles, air_diff)

OnlyObjectIs(type) ==
    Len(environment_objects) = 1 /\ environment_objects[1].object.type = type

\* C31: an OxygenUser on a ground tile whose oxygen is >= change_per_sec * delta_time
\* lowers the oxygen of that tile by exactly that amount and raises its fumes by the same
\* (nitrogen and the total of the tile as they were); with less oxygen, or on a wall, the
\* tile is left as it was. No other tile changes.
C31_OxygenUser ==
    (AirApplied /\ OnlyObjectIs("OxygenUser")) =>
        LET user == environment_objects[1].object
            c == <<user.x, user.y>>
            used == (user.change_per_sec * delta_time) \div FP
            before == AirAdded[c]
        IN /\ \A d \in Coords \ {c} : tiles[d] = AirAdded[d]
           /\ IF is_ground(before) /\ before.tile_type.air.oxygen >= used
              THEN /\ tiles[c].tile_type.air.oxygen = before.tile_type.air.oxygen - used
                   /\ tiles[c].tile_type.air.fumes = before.tile_type.air.fumes + used
                   /\ tiles[c].tile_type.air.nitrogen = before.tile_type.air.nitrogen
                   /\ AirSum(tiles[c].tile_type.air) = AirSum(before.tile_type.air)
                   /\ tiles[c].tile_type.liquids = before.tile_type.liquids
                   /\ tiles[c].ground_level = before.ground_level
              ELSE tiles[c] = before

\* the user found less oxygen than it asks for in one second and left the tile alone
C31_Witness ==
    /\ AirApplied
    /\ OnlyObjectIs("OxygenUser")
    /\ environment_objects[1].object.change_per_sec = 100
    /\ delta_time = FP
    /\ is_ground(AirAdded[<<0, 0>>])
    /\ AirAdded[<<0, 0>>].tile_type.air = AirData(790, 10, 60)
    /\ tiles[<<0, 0>>].tile_type.air = AirData(790, 10, 60)


Species == {"nitrogen", "oxygen", "fumes"}

\* the tile one step from the pusher, which may lie outside the grid
PushTarget(pusher) ==
    <<pusher.x + StepOffset(pusher.direction)[1], pusher.y + StepOffset(pusher.direction)[2]>>

PushActs(pusher) ==
    /\ PushTarget(pusher) \in Coords
    /\ is_ground(AirAdded[<<pusher.x, pusher.y>>])
    /\ is_ground(AirAdded[PushTarget(pusher)])

\* the amount is `share` of `whole`, to the resolution 1 / FP of two roundings
IsShareOf(amount, whole, share) ==
    /\ amount * FP - whole * share > -2 * FP
    /\ amount * FP - whole * share < 2 * FP

\* C32: an AirPusher moves amount * delta_time of each species of its source tile to the
\* adjacent tile in its direction: what the target gains the source loses, so the sum of
\* each species over the two tiles is as it was, and no other tile changes; when the
\* target is off the grid, or the target or the source is a wall, no tile changes.
C32_AirPusher ==
    (AirApplied /\ OnlyObjectIs("AirPusher")) =>
        LET pusher == environment_objects[1].object
            source == <<pusher.x, pusher.y>>
            target == PushTarget(pusher)
            share == (pusher.amount * delta_time) \div FP
        IN IF PushActs(pusher)
           THEN /\ \A d \in Coords \ {source, target} : tiles[d] = AirAdded[d]
                /\ \A d \in {source, target} :
                      /\ is_ground(tiles[d])
                      /\ tiles[d].ground_level = AirAdded[d].ground_level
                      /\ tiles[d].tile_type.liquids = AirAdded[d].tile_type.liquids
                /\ \A species \in Species :
                      LET gained == tiles[target].tile_type.air[species]
                                        - AirAdded[target].tile_type.air[species]
                          lost == AirAdded[source].tile_type.air[species]
                                      - tiles[source].tile_type.air[species]
                      IN /\ gained = lost
                         /\ IsShareOf(gained, AirAdded[source].tile_type.air[species], share)
           ELSE tiles = AirAdded

\* a quarter of the air of tile 1,0 went West to tile 0,0 in one second
C32_Witness ==
    /\ AirApplied
    /\ OnlyObjectIs("AirPusher")
    /\ environment_objects[1].object.direction = "West"
    /\ PushActs(environment_objects[1].object)
    /\ delta_time = FP
    /\ AirAdded[<<0, 0>>].tile_type.air = AirData(790, 10, 60)
    /\ tiles[<<0, 0>>].tile_type.air = AirData(987, 62, 60)
    /\ tiles[<<1, 0>>].tile_type.air = AirData(593, 158, 0)


\* the places in the object order of the liquid levelers that stand on tile c
LevelersAt(c) ==
    {i \in DOMAIN environment_objects :
        /\ environment_objects[i].object.type = "LiquidLeveler"
        /\ <<environment_objects[i].object.x, environment_objects[i].object.y>> = c}

Last(places) == CHOOSE i \in places : \A j \in places : j <= i

\* C33: at the end of apply_liquid_diff every ground tile at the coordinates of a
\* LiquidLeveler holds the target of that leveler, of the last one in object order when
\* several stand on the tile, whatever the deltas were and whether or not water and
\* lava met on the tile in this step; a wall at the coordinates of a leveler stays a wall.
C33_LiquidLeveler ==
    LiquidApplied =>
        \A c \in Coords :
            LevelersAt(c) # {} =>
                IF is_ground(pre_tick.tiles[c])
                THEN /\ is_ground(tiles[c])
                     /\ tiles[c].tile_type.liquids
                            = environment_objects[Last(LevelersAt(c))].object.target
                ELSE tiles[c] = pre_tick.tiles[c]

\* water and lava met under two levelers: the ground rose, the tile holds the target of
\* the second leveler
C33_Witness ==
    /\ LiquidApplied
    /\ Cardinality(LevelersAt(<<0, 0>>)) = 2
    /\ is_ground(pre_tick.tiles[<<0, 0>>])
    /\ pre_tick.tiles[<<0, 0>>].tile_type.liquids = Water(500)
    /\ lava_diff[<<0, 0>>] = 500
    /\ water_diff[<<0, 0>>] = 300
    /\ tiles[<<0, 0>>].ground_level = 300
    /\ tiles[<<0, 0>>].tile_type.liquids = Lava(300)
    /\ environment_objects[2].object.target = Lava(300)


(***************************************************************************)
(* Walls and the size of the grid across ticks.                            *)
(***************************************************************************)
\* C34: no step of simulate changes the type of a tile or the size of the grid, and a
\* wall tile is left exactly as it was by every step (no leveler, oxygen user or pusher
\* gives it air or liquid); the air, water and lava buffers hold zero deltas for every
\* wall tile.
C34_WallsStayWalls ==
    /\ [][/\ DOMAIN tiles' = DOMAIN tiles
          /\ \A c \in DOMAIN tiles :
                /\ tiles'[c].tile_type.tag = tiles[c].tile_type.tag
                /\ ~is_ground(tiles[c]) => tiles'[c] = tiles[c]]_vars
    /\ [](\A c \in Coords :
             ~is_ground(tiles[c]) =>
                 /\ air_diff[c] = AirData(0, 0, 0)
                 /\ water_diff[c] = 0
                 /\ lava_diff[c] = 0)

\* two ticks have passed on a grid with a wall beside tiles that exchanged air and water
C34_Witness ==
    /\ spc = "idle"
    /\ ticks = MaxTicks
    /\ \E c \in Coords : ~is_ground(tiles[c])
    /\ \E c \in Coords : air_diff[c] # AirData(0, 0, 0)
    /\ \E c \in Coords : water_diff[c] # 0
    /\ tiles # pre_tick.tiles


(***************************************************************************)
(* calculate_liquid_diff for water and for lava on grids whose first two   *)
(* tiles are walls or ground of two heights, dry or holding water or lava  *)
(* below the spreading threshold, above it, or at MAX_LEVEL.               *)
(***************************************************************************)
SpreadLiquids ==
    {LiquidNone, Water(5), Water(500), Water(MAX_LEVEL), Lava(50), Lava(500), Lava(MAX_LEVEL)}

SpreadTiles ==
    {Wall(0)} \cup {Ground(ground_level, AirDefault, liquids) :
                       ground_level \in {0, 500}, liquids \in SpreadLiquids}

InitSpread ==
    /\ ObjectsNew
    /\ \E first \in SpreadTiles, second \in SpreadTiles, third \in {TileDefault, Wall(0)} :
          tiles = [c \in Coords |-> IF c = <<0, 0>> THEN first
                                    ELSE IF c = <<1, 0>> THEN second
                                    ELSE IF c = <<0, 1>> THEN third ELSE TileDefault]
    /\ current_time = 0
    /\ spc = "scope"
    /\ delta_time \in DeltaTimes
    /\ task_state = [t \in Tasks |-> IF t \in {"water", "lava"} THEN "spawned" ELSE "done"]
    /\ air_diff = AirDiffDefault
    /\ water_diff = LiquidDiffDefault
    /\ lava_diff = LiquidDiffDefault
    /\ ai_changes = <<>>
    /\ pre_tick = Snapshot
    /\ task_input = [t \in Tasks |-> <<>>]
    /\ apply_log = <<>>
    /\ ticks = 0
    /\ probe = <<>>

NextSpread == \E t \in {"water", "lava"} : task_run(t)

SpecSpread == InitSpread /\ [][NextSpread]_vars

LiquidOfTask(t) == IF t = "water" THEN "Water" ELSE "Lava"
BufferOfTask(t) == IF t = "water" THEN water_diff ELSE lava_diff

Surface(tile, L) == tile.ground_level + get_level(tile.tile_type.liquids, L)

\* liquid L may pass from tile s to tile n of the snapshot
MayFlow(tls, s, n, L) ==
    /\ n \in Adjacent(Width, Height, s[1], s[2])
    /\ is_ground(tls[s])
    /\ get_level(tls[s].tile_type.liquids, L) >= MINIMAL_HEIGHT_TO_SPREAD(L)
    /\ is_ground(tls[n])
    /\ Surface(tls[n], L) < Surface(tls[s], L)
    /\ get_level(tls[n].tile_type.liquids, L) < MAX_LEVEL

\* C35: in the buffer calculate_liquid_diff returns for liquid L, a tile has a negative
\* delta only if it holds at least L::MINIMAL_HEIGHT_TO_SPREAD of L and has a ground
\* neighbour whose surface (ground_level + L-level) is strictly lower and whose L-level
\* is below MAX_LEVEL, and a positive delta only if it is the lower neighbour of such a
\* tile: a tile below the threshold gives nothing and nothing flows to a surface of
\* equal or greater height.
C35_FlowsDownhillOnly ==
    \A t \in {"water", "lava"} :
        task_state[t] = "done" =>
            \A c \in Coords :
                /\ BufferOfTask(t)[c] < 0 =>
                       \E n \in Coords : MayFlow(pre_tick.tiles, c, n, LiquidOfTask(t))
                /\ BufferOfTask(t)[c] > 0 =>
                       \E s \in Coords : MayFlow(pre_tick.tiles, s, c, LiquidOfTask(t))

\* deep water stands beside water below the threshold on higher ground, a full tile and
\* a dry one: it flows to the dry tile only
C35_Witness ==
    /\ task_state["water"] = "done"
    /\ pre_tick.tiles[<<0, 0>>] = Ground(0, AirDefault, Water(500))
    /\ pre_tick.tiles[<<1, 0>>] = Ground(500, AirDefault, Water(5))
    /\ water_diff[<<0, 0>>] < 0
    /\ water_diff[<<1, 0>>] = 0
    /\ water_diff[<<1, 1>>] > 0


\* the liquids a tile can hold with no liquid but L
LevelsOf(L) ==
    {LiquidNone} \cup {[tag |-> L, level |-> level] : level \in {50, 500, MAX_LEVEL}}

\* the snapshots that differ from tls in nothing but the levels of liquid L
DifferingIn(tls, L) ==
    {[c \in Coords |->
         IF is_ground(tls[c]) /\ tls[c].tile_type.liquids.tag \in {"None", L}
         THEN set_liquids(tls[c], levels[c]) ELSE tls[c]] :
            levels \in [Coords -> LevelsOf(L)]}

\* C36: the water buffer is the same for every snapshot that differs from the one it was
\* computed from only in the lava levels of tiles, and the lava buffer the same for every
\* snapshot that differs only in water levels.
C36_LiquidsSolvedApart ==
    /\ task_state["water"] = "done" =>
          \A other \in DifferingIn(pre_tick.tiles, "Lava") :
              calculate_liquid_diff(other, "Water", delta_time) = water_diff
    /\ task_state["lava"] = "done" =>
          \A other \in DifferingIn(pre_tick.tiles, "Water") :
              calculate_liquid_diff(other, "Lava", delta_time) = lava_diff

\* water spread beside lava that spread too
C36_Witness ==
    /\ task_state["water"] = "done"
    /\ task_state["lava"] = "done"
    /\ pre_tick.tiles[<<0, 0>>] = Ground(0, AirDefault, Water(500))
    /\ pre_tick.tiles[<<1, 0>>] = Ground(0, AirDefault, Lava(MAX_LEVEL))
    /\ water_diff[<<0, 0>>] < 0
    /\ lava_diff[<<1, 0>>] < 0
    /\ water_diff[<<1, 0>>] > 0
    /\ lava_diff[<<0, 0>>] > 0


(***************************************************************************)
(* The changes of one character in one call of calculate_ai_changes.       *)
(***************************************************************************)
ChangesOf(id) == {n \in DOMAIN ai_changes : ai_changes[n].character_id = id}

\* C37: calculate_ai_changes returns at most one AiChange for each character, whatever
\* its work_goals_order lists: the scan of the goals stops at the first goal that gives
\* a change.
C37_OneChangePerCharacter ==
    ChoiceReturned =>
        \A c \in DOMAIN characters : Cardinality(ChangesOf(characters[c].id)) <= 1


(***************************************************************************)
(* The workspot of a character that has a task.                            *)
(***************************************************************************)
\* the character holds the workspot of its task, or has no task, or its building is gone
HoldsItsWorkspot(character) ==
    LET task == character.object.current_task
    IN (task.tag = "WorkAtSpot" /\ lookup(buildings, task.building) # 0) =>
           OccupationAt(buildings, task) \in {Claimed(character.id), Working(character.id)}

\* C38: after every simulate and every perform_ai_tick call, for every character whose
\* current task is WorkAtSpot(b, i) and whose building b is live, workspot i of b is
\* Claimed or Working by that character.
C38_TaskHasClaim ==
    (SimulateReturned \/ TickReturned) =>
        \A c \in DOMAIN characters : HoldsItsWorkspot(characters[c])


(***************************************************************************)
(* Walking to a claimed workspot.  A character comes to the end of its     *)
(* path after finitely many calls if every call shortens the path that is  *)
(* left or ends it.                                                        *)
(***************************************************************************)
\* the character has a path to a workspot of a live building that it has claimed
OnItsWay(character) ==
    /\ character.object.current_path # <<>>
    /\ character.object.current_task.tag = "WorkAtSpot"
    /\ lookup(buildings, character.object.current_task.building) # 0
    /\ OccupationAt(buildings, character.object.current_task) = Claimed(character.id)

\* C39: every perform_ai_tick call with a positive delta_time takes a character that
\* has a path to a workspot it has claimed, of a live building, closer to the final
\* point or to the final point itself, where its workspot becomes Working: the character
\* arrives after finitely many calls, from every start position, that of a character
\* standing on the workspot (a path of length zero) included.
C39_ArrivesAndWorks ==
    [][(spc = "idle" /\ probe' # <<>> /\ probe'.call = "perform_ai_tick" /\ Running') =>
          \A c \in DOMAIN characters :
              OnItsWay(characters[c]) =>
                  \/ /\ characters'[c].object.current_path = <<>>
                     /\ characters'[c].object.current_task = characters[c].object.current_task
                     /\ buildings'[lookup(buildings, characters[c].object.current_task.building)]
                            .object.workspots[characters[c].object.current_task.workspot_index + 1]
                            .occupation = Working(characters[c].id)
                  \/ /\ characters'[c].object.current_path # <<>>
                     /\ total_length(characters'[c].object.current_path)
                            < total_length(characters[c].object.current_path)]_vars


(***************************************************************************)
(* The ground level of the tiles.                                          *)
(***************************************************************************)
\* C40: no step of simulate lowers the ground_level of a tile; a ground_level changes
\* only in apply_liquid_diff, on a ground tile whose water level and lava level after
\* the deltas of the tick are both above 0; the ground_level of a wall never changes.
C40_GroundNeverSinks ==
    [][\A c \in Coords :
          /\ tiles'[c].ground_level >= tiles[c].ground_level
          /\ tiles'[c].ground_level # tiles[c].ground_level =>
                 /\ spc = "apply_liquid"
                 /\ is_ground(tiles[c])
                 /\ new_level(tiles[c].tile_type.liquids, "Water", water_diff[c]) > 0
                 /\ new_level(tiles[c].tile_type.liquids, "Lava", lava_diff[c]) > 0]_vars

\* lava came onto a tile of water on raised ground and the ground rose further
C40_Witness ==
    /\ LiquidApplied
    /\ pre_tick.tiles[<<0, 0>>] = Ground(200, AirDefault, Lava(500))
    /\ water_diff[<<0, 0>>] = 2000
    /\ lava_diff[<<0, 0>>] = 500
    /\ tiles[<<0, 0>>].ground_level = 1200
    /\ tiles[<<1, 0>>].ground_level = 0

====
